---- MODULE Spec2Model ----
(***************************************************************************)
(* A model of the timetable scraper (src/scraper/timetable_scraper.py and  *)
(* src/scraper/timetable_fetcher.py).                                      *)
(*                                                                         *)
(* Text is modelled as a sequence of one-character strings, so that        *)
(* slicing, stripping, splitting and integer parsing are computed the way  *)
(* the Python code computes them.  Python's None is the value None below   *)
(* for text and NoneList for lists.  A call that can raise returns a       *)
(* record [exc, val]: exc = "" when the call returned val, otherwise the   *)
(* name of the exception that propagated.                                  *)
(***************************************************************************)
EXTENDS Integers, Sequences, FiniteSets, TLC

VARIABLES
    call,                 \* pure-function harness: which function was called
    args,                 \* its arguments
    result,               \* [exc, val] returned by the call
    course_sections_map,  \* process_subject_rows: the dict being built
    curr_course,          \* process_subject_rows: the current-course cursor
    i,                    \* process_subject_rows: number of rows consumed
    row,                  \* process_subject_rows: the row last consumed
    pc,                   \* process_subject_rows: "loop", "raised" or "returned"
    exc,                  \* process_subject_rows: the exception that escaped
    created,              \* history: <<course, index>> per created section, in order
    extended,             \* history: sections that were the latest at a continuation row
    subjects,             \* scrape_all_subjects: the list get_subjects returned
    subject_i,            \* scrape_multiple_subjects: subjects scraped so far
    fetched,              \* the last fetch_html call: [subject, transport, ret]
    all_subjects_map,     \* scrape_multiple_subjects: the dict being built
    scrape_pc,            \* "start", "loop", "raised" or "returned"
    scrape_exc,           \* the exception that escaped scrape_all_subjects
    served,               \* history: the transport behaviour of each subject fetch
    site,                 \* the server: the transport that answers each fetch
    op,                   \* TimetableScraper: the method called last
    op_arg,               \* its argument
    op_pc,                \* "idle", "running", "returned" or "raised"
    op_result,            \* [exc, val] of the call
    op_fetches,           \* the subjects fetch_html was called with, in order
    calls,                \* number of calls made on the instance
    list_fetches,         \* history: fetches of the all-subjects page so far
    subjects_known,       \* history: some get_subjects gave a non-empty list
    session,              \* the fetcher's requests.Session: "open" or "closed"
    all_courses_map,      \* parse_courses: the dict kept across all subjects
    current_course_key,   \* parse_courses: the key of the course of the last section
    current_section_crn,  \* parse_courses: the CRN of the last section
    parse_pc,             \* parse_courses: "idle", "subjects", "rows" or "returned"
    subject_n,            \* parse_courses: subjects taken from self.subjects so far
    row_n,                \* parse_courses: rows consumed of the current page
    parsed_row,           \* parse_courses: the row last consumed
    page_has_section      \* history: a section row was consumed in the current page

vars == <<call, args, result, course_sections_map, curr_course, i, row, pc,
          exc, created, extended, subjects, subject_i, fetched,
          all_subjects_map, scrape_pc, scrape_exc, served, site, op, op_arg,
          op_pc, op_result, op_fetches, calls, list_fetches, subjects_known,
          session, all_courses_map, current_course_key, current_section_crn,
          parse_pc, subject_n, row_n, parsed_row, page_has_section>>

(***************************************************************************)
(* Python values                                                           *)
(***************************************************************************)

\* None, where a text is expected
None == <<"None">>

\* None, where a list of meeting times is expected
NoneList == <<[none |-> TRUE]>>

\* the "ARR" element of a meeting_times list
ARR == [sentinel |-> "ARR"]

Ok(v) == [exc |-> "", val |-> v]

Raise(e) == [exc |-> e, val |-> None]

\* characters str.strip() and str.split() treat as whitespace
Whitespace == {" ", "\t", "\n"}

DigitChars == <<"0", "1", "2", "3", "4", "5", "6", "7", "8", "9">>

IsDigit(c) == \E d \in 1..10 : DigitChars[d] = c

DigitVal(c) == (CHOOSE d \in 1..10 : DigitChars[d] = c) - 1

\* s[a..b], empty when a > b
Slice(s, a, b) == IF a > b THEN <<>> ELSE SubSeq(s, a, b)

\* str.strip()
RECURSIVE LStrip(_)
LStrip(s) ==
    IF s # <<>> /\ s[1] \in Whitespace THEN LStrip(Tail(s)) ELSE s

RECURSIVE RStrip(_)
RStrip(s) ==
    IF s # <<>> /\ s[Len(s)] \in Whitespace
    THEN RStrip(Slice(s, 1, Len(s) - 1))
    ELSE s

Strip(s) == RStrip(LStrip(s))

\* str.split(sep): always at least one part, empty parts kept
RECURSIVE SplitOn(_, _)
SplitOn(s, sep) ==
    IF \E k \in 1..Len(s) : s[k] = sep
    THEN LET k == CHOOSE k \in 1..Len(s) :
                      s[k] = sep /\ \A j \in 1..(k - 1) : s[j] # sep
         IN  <<Slice(s, 1, k - 1)>> \o SplitOn(Slice(s, k + 1, Len(s)), sep)
    ELSE <<s>>

\* str.split(): split on runs of whitespace, no empty parts
RECURSIVE SplitWhitespace(_)
SplitWhitespace(s) ==
    LET t == LStrip(s)
    IN  IF t = <<>>
        THEN <<>>
        ELSE IF \E k \in 1..Len(t) : t[k] \in Whitespace
             THEN LET k == CHOOSE k \in 1..Len(t) :
                               t[k] \in Whitespace
                               /\ \A j \in 1..(k - 1) : t[j] \notin Whitespace
                  IN  <<Slice(t, 1, k - 1)>>
                          \o SplitWhitespace(Slice(t, k + 1, Len(t)))
             ELSE <<t>>

\* value of a non-empty sequence of digits
RECURSIVE DecVal(_)
DecVal(s) ==
    IF s = <<>> THEN 0
    ELSE 10 * DecVal(Slice(s, 1, Len(s) - 1)) + DigitVal(s[Len(s)])

\* int(s): surrounding whitespace and one sign are accepted; anything else
\* than digits raises ValueError
ParseIntDigits(neg, body) ==
    IF body # <<>> /\ \A k \in 1..Len(body) : IsDigit(body[k])
    THEN Ok(IF neg THEN 0 - DecVal(body) ELSE DecVal(body))
    ELSE [exc |-> "ValueError", val |-> 0]

ParseIntSigned(t) ==
    ParseIntDigits(t # <<>> /\ t[1] = "-",
                   IF t # <<>> /\ t[1] \in {"+", "-"} THEN Tail(t) ELSE t)

ParseInt(s) == ParseIntSigned(Strip(s))

\* decimal digits of a natural number
RECURSIVE DecStr(_)
DecStr(n) ==
    IF n < 10 THEN <<DigitChars[n + 1]>>
    ELSE DecStr(n \div 10) \o <<DigitChars[(n % 10) + 1]>>

\* f"{n:02d}": zero-padded to a minimum width of 2, the sign counts
Format02d(n) ==
    IF n < 0 THEN <<"-">> \o DecStr(0 - n)
    ELSE IF n < 10 THEN <<"0">> \o DecStr(n)
    ELSE DecStr(n)

(***************************************************************************)
(* Helper functions                                                        *)
(***************************************************************************)

\* the week counted from Sunday = 0
DAY_MAPPINGMutantSunday ==
    [d \in {"M", "T", "W", "R", "F", "S", "U"} |->
        CASE d = "M" -> 1
          [] d = "T" -> 2
          [] d = "W" -> 3
          [] d = "R" -> 4
          [] d = "F" -> 5
          [] d = "S" -> 6
          [] d = "U" -> 0]

DAY_MAPPING ==
    [d \in {"M", "T", "W", "R", "F", "S", "U"} |->
        CASE d = "M" -> 1
          [] d = "T" -> 2
          [] d = "W" -> 3
          [] d = "R" -> 4
          [] d = "F" -> 5
          [] d = "S" -> 6
          [] d = "U" -> 7]

\* "----- (ARR) -----"
ArrangedTimeText ==
    <<"-", "-", "-", "-", "-", " ", "(", "A", "R", "R", ")", " ",
      "-", "-", "-", "-", "-">>

\* "(ARR)"
ArrangedDaysText == <<"(", "A", "R", "R", ")">>

\* "ARR"
ArrText == <<"A", "R", "R">>

\* the 12-hour to 24-hour rule without the exception for 12 PM
HourMutantNoNoon(hour, am_pm) ==
    IF am_pm = <<"P", "M">> THEN hour + 12
    ELSE IF am_pm = <<"A", "M">> /\ hour = 12 THEN 0
    ELSE hour

\* the 12-hour to 24-hour rule of parse_time
Hour24(hour, am_pm) ==
    IF am_pm = <<"P", "M">> /\ hour # 12 THEN hour + 12
    ELSE IF am_pm = <<"A", "M">> /\ hour = 12 THEN 0
    ELSE hour

\* the return statement of parse_time; int() raised when hour or minute
\* carries an exception
FormatTime(hour, minute, am_pm) ==
    IF hour.exc # "" \/ minute.exc # ""
    THEN Raise("ValueError")
    ELSE Ok(Format02d(Hour24(hour.val, am_pm))
                \o <<":">> \o Format02d(minute.val))

\* hour, minute = map(int, parts): ValueError unless there are two parts
UnpackTime(parts, am_pm) ==
    IF Len(parts) # 2
    THEN Raise("ValueError")
    ELSE FormatTime(ParseInt(parts[1]), ParseInt(parts[2]), am_pm)

parse_time(time_str) ==
    IF time_str = None \/ time_str = <<>> \/ time_str = ArrangedTimeText
    THEN Ok(ArrText)
    ELSE UnpackTime(
             SplitOn(Strip(Slice(time_str, 1, Len(time_str) - 2)), ":"),
             Strip(Slice(time_str,
                         IF Len(time_str) > 2 THEN Len(time_str) - 1 ELSE 1,
                         Len(time_str))))

\* DAY_MAPPING[day]: KeyError for a token that is not a key
DayLookup(day) ==
    IF Len(day) = 1 /\ day[1] \in DOMAIN DAY_MAPPING
    THEN Ok(DAY_MAPPING[day[1]])
    ELSE [exc |-> "KeyError", val |-> 0]

\* the early return of determine_meeting_times
IsArrangedCall(days) ==
    days = None \/ days = <<>> \/ days = ArrangedDaysText

\* the loop over days.split(), with the formatted times [exc, val]
MeetingEntries(toks, formatted_begin_time, formatted_end_time) ==
    IF formatted_begin_time.exc # ""
    THEN [exc |-> formatted_begin_time.exc, val |-> <<>>]
    ELSE IF formatted_end_time.exc # ""
    THEN [exc |-> formatted_end_time.exc, val |-> <<>>]
    ELSE IF \E k \in 1..Len(toks) : DayLookup(toks[k]).exc # ""
    THEN [exc |-> "KeyError", val |-> <<>>]
    ELSE Ok([k \in 1..Len(toks) |->
               [day        |-> DayLookup(toks[k]).val,
                begin_time |-> formatted_begin_time.val,
                end_time   |-> formatted_end_time.val]])

determine_meeting_times(days, begin_time, end_time) ==
    IF IsArrangedCall(days)
    THEN Ok(<<ARR>>)
    ELSE MeetingEntries(
             SplitWhitespace(days),
             parse_time(begin_time),
             parse_time(IF end_time = None THEN begin_time ELSE end_time))

\* a table cell: its text, and the tag of the element nested in it that
\* holds the text ("" when the text is directly in the cell)
Cell(text, child) == [text |-> text, child |-> child]

\* "N/A"
NotAvailableText == <<"N", "/", "A">>

\* "* Additional Times *"
AdditionalTimesMarker ==
    <<"*", " ", "A", "d", "d", "i", "t", "i", "o", "n", "a", "l", " ",
      "T", "i", "m", "e", "s", " ", "*">>

safe_extract_text(element, selector) ==
    IF selector # "" /\ element.child # selector
    THEN None
    ELSE LET text == Strip(element.text)
         IN  IF text # <<>> /\ text # NotAvailableText THEN text ELSE None

\* the marker test that looks at the cell count only
is_additional_times_rowMutantNoMarker(cols, expected_length) ==
    Len(cols) = expected_length

is_additional_times_row(cols, expected_length) ==
    IF Len(cols) # expected_length
    THEN FALSE
    ELSE /\ cols[5].child = "b"
         /\ Strip(cols[5].text) = AdditionalTimesMarker

(***************************************************************************)
(* Data parsing                                                            *)
(***************************************************************************)

parse_new_section_data(cols, row_type) ==
    IF row_type = "arranged"
    THEN [crn           |-> safe_extract_text(cols[1], "b"),
          course        |-> safe_extract_text(cols[2], "font"),
          title         |-> safe_extract_text(cols[3], ""),
          schedule_type |-> safe_extract_text(cols[4], ""),
          modality      |-> safe_extract_text(cols[5], "p"),
          credit_hours  |-> safe_extract_text(cols[6], ""),
          capacity      |-> safe_extract_text(cols[7], ""),
          instructor    |-> safe_extract_text(cols[8], ""),
          days          |-> safe_extract_text(cols[9], ""),
          time          |-> safe_extract_text(cols[10], ""),
          location      |-> safe_extract_text(cols[11], ""),
          exam_code     |-> safe_extract_text(cols[12], "a")]
    ELSE [crn           |-> safe_extract_text(cols[1], "b"),
          course        |-> safe_extract_text(cols[2], "font"),
          title         |-> safe_extract_text(cols[3], ""),
          schedule_type |-> safe_extract_text(cols[4], ""),
          modality      |-> safe_extract_text(cols[5], "p"),
          credit_hours  |-> safe_extract_text(cols[6], ""),
          capacity      |-> safe_extract_text(cols[7], ""),
          instructor    |-> safe_extract_text(cols[8], ""),
          days          |-> safe_extract_text(cols[9], ""),
          begin_time    |-> safe_extract_text(cols[10], ""),
          end_time      |-> safe_extract_text(cols[11], ""),
          location      |-> safe_extract_text(cols[12], ""),
          exam_code     |-> safe_extract_text(cols[13], "a")]

create_section_object(parsed_data, meeting_times) ==
    [crn           |-> parsed_data.crn,
     course        |-> parsed_data.course,
     title         |-> parsed_data.title,
     schedule_type |-> parsed_data.schedule_type,
     modality      |-> parsed_data.modality,
     credit_hours  |-> parsed_data.credit_hours,
     capacity      |-> parsed_data.capacity,
     instructor    |-> parsed_data.instructor,
     meeting_times |-> IF meeting_times # NoneList /\ Len(meeting_times) > 0
                       THEN meeting_times
                       ELSE NoneList,
     location      |-> parsed_data.location,
     exam_code     |-> parsed_data.exam_code]

(***************************************************************************)
(* A dict is kept as the sequence of its items [key, val] in insertion     *)
(* order                                                                   *)
(***************************************************************************)

HasKey(m, k) == \E j \in 1..Len(m) : m[j].key = k

KeyIndex(m, k) == CHOOSE j \in 1..Len(m) : m[j].key = k

Get(m, k) == m[KeyIndex(m, k)].val

\* m[k] = v
Put(m, k, v) ==
    IF HasKey(m, k)
    THEN [m EXCEPT ![KeyIndex(m, k)].val = v]
    ELSE Append(m, [key |-> k, val |-> v])

\* the section put in front of the list
AppendSectionMutantFront(m, k, section) ==
    Put(m, k, <<section>> \o (IF HasKey(m, k) THEN Get(m, k) ELSE <<>>))

\* defaultdict(list): m[k].append(section), the key is created when missing
AppendSection(m, k, section) ==
    Put(m, k, (IF HasKey(m, k) THEN Get(m, k) ELSE <<>>) \o <<section>>)

(***************************************************************************)
(* Row processing                                                          *)
(***************************************************************************)

\* the first course of the map instead of the current one
PrevSectionKeyMutantFirst(m, curr) == m[1].key

\* which course's sections a continuation row extends: curr_course
PrevSectionKey(m, curr) == curr

\* the first section of the course instead of the last: [0]
PrevSectionIndexMutantFirst(sections) == 1

\* which section of the current course a continuation row extends: [-1]
PrevSectionIndex(sections) == Len(sections)

\* a reset that also empties a list equal to ["ARR"]
ResetMeetingsMutantArr(meeting_times) ==
    IF meeting_times = NoneList \/ meeting_times = <<ARR>>
    THEN <<>>
    ELSE meeting_times

\* the meeting_times list a continuation row extends: None becomes []
ResetMeetings(meeting_times) ==
    IF meeting_times = NoneList THEN <<>> ELSE meeting_times

\* the guards of parse_additional_times_row: is there a section to extend
HasPrevSection(m, curr) ==
    /\ curr # None /\ curr # <<>> /\ HasKey(m, curr)
    /\ Get(m, curr) # <<>>

\* the map after indexing the defaultdict with the current course: the
\* key is created with an empty list
UntouchedMapMutantDefault(m, curr) ==
    IF HasKey(m, curr) THEN m ELSE Append(m, [key |-> curr, val |-> <<>>])

\* the map parse_additional_times_row leaves when there is no section to
\* extend: the membership test does not create the key
UntouchedMap(m, curr) == m

\* all the meeting times kept
KeepLastMutantAll(meeting_times) == meeting_times

\* the meeting times an in-person continuation row keeps: the last one
KeepLast(meeting_times) ==
    IF meeting_times # <<>> /\ meeting_times # <<ARR>>
    THEN <<meeting_times[Len(meeting_times)]>>
    ELSE meeting_times

\* KeepLast on the result [exc, val] of determine_meeting_times
KeepLastOf(times) ==
    IF times.exc # "" THEN times ELSE Ok(KeepLast(times.val))

\* the meeting times of a continuation row, by its layout: [exc, val]
ContinuationTimes(cols, is_online) ==
    IF is_online /\ Len(cols) = 9
    THEN determine_meeting_times(safe_extract_text(cols[6], ""),
                                 safe_extract_text(cols[7], ""),
                                 None)
    ELSE IF ~is_online /\ Len(cols) = 10
    THEN KeepLastOf(
             determine_meeting_times(safe_extract_text(cols[6], ""),
                                     safe_extract_text(cols[7], ""),
                                     safe_extract_text(cols[8], "")))
    ELSE Ok(<<>>)

\* prev_section["meeting_times"] of sections[idx] is reset when None,
\* then extended unless determine_meeting_times raised
ExtendSection(m, key, idx, times) ==
    [exc |-> times.exc,
     map |-> Put(m, key,
                 [Get(m, key) EXCEPT ![idx].meeting_times =
                     IF times.exc # ""
                     THEN ResetMeetings(@)
                     ELSE ResetMeetings(@) \o times.val])]

\* returns [exc, map]: the map after the call, and the exception that
\* escaped ("" when none)
parse_additional_times_row(cols, m, curr, is_online) ==
    IF ~HasPrevSection(m, curr)
    THEN [exc |-> "", map |-> UntouchedMap(m, curr)]
    ELSE ExtendSection(m, PrevSectionKey(m, curr),
                       PrevSectionIndex(Get(m, PrevSectionKey(m, curr))),
                       ContinuationTimes(cols, is_online))

\* the outcome [exc, map, curr, made] of a continuation row
ContinuationOutcome(r, curr) ==
    [exc |-> r.exc, map |-> r.map, curr |-> curr, made |-> FALSE]

\* lines 398-412: a row without course is skipped, otherwise the section
\* is appended under its course, which becomes the current course
NewSection(m, curr, parsed_data, meeting_times) ==
    IF meeting_times.exc # ""
    THEN [exc |-> meeting_times.exc, map |-> m, curr |-> curr,
          made |-> FALSE]
    ELSE IF parsed_data.course = None
    THEN [exc |-> "", map |-> m, curr |-> curr, made |-> FALSE]
    ELSE [exc  |-> "",
          map  |-> AppendSection(m, parsed_data.course,
                                 create_section_object(parsed_data,
                                                       meeting_times.val)),
          curr |-> parsed_data.course,
          made |-> TRUE]

\* lines 373-389: the meeting times of a 12- or 13-cell row
NewSectionRow(m, curr, col_count, parsed_data) ==
    NewSection(m, curr, parsed_data,
               IF col_count = 12
               THEN determine_meeting_times(parsed_data.days,
                                            parsed_data.time, None)
               ELSE determine_meeting_times(parsed_data.days,
                                            parsed_data.begin_time,
                                            parsed_data.end_time))

\* one iteration of the loop of process_subject_rows over a row's cells;
\* returns [exc, map, curr, made]: made is TRUE when a section was appended
ProcessRow(m, curr, cols) ==
    IF Len(cols) = 0
    THEN [exc |-> "", map |-> m, curr |-> curr, made |-> FALSE]
    ELSE IF Len(cols) = 9 /\ is_additional_times_row(cols, 9)
    THEN ContinuationOutcome(
             parse_additional_times_row(cols, m, curr, TRUE), curr)
    ELSE IF Len(cols) = 10 /\ is_additional_times_row(cols, 10)
    THEN ContinuationOutcome(
             parse_additional_times_row(cols, m, curr, FALSE), curr)
    ELSE IF Len(cols) \notin {12, 13}
    THEN [exc |-> "", map |-> m, curr |-> curr, made |-> FALSE]
    ELSE NewSectionRow(m, curr, Len(cols),
                       parse_new_section_data(
                           cols,
                           IF Len(cols) = 12 THEN "arranged" ELSE "regular"))

(***************************************************************************)
(* Table rows                                                              *)
(***************************************************************************)

\* "&nbsp;"
Blank == Cell(<<" ">>, "")

\* "83488", "12345", "CRN"
Crn1 == <<"8", "3", "4", "8", "8">>

Crn2 == <<"1", "2", "3", "4", "5">>

CrnHeader == <<"C", "R", "N">>

\* "CS-2114", "CS-1064"
Course1 == <<"C", "S", "-", "2", "1", "1", "4">>

Course2 == <<"C", "S", "-", "1", "0", "6", "4">>

\* "-----"
Dashes == <<"-", "-", "-", "-", "-">>

T0930 == <<"9", ":", "3", "0", "A", "M">>

T1020 == <<"1", "0", ":", "2", "0", "A", "M">>

T1220 == <<"1", "2", ":", "2", "0", "P", "M">>

T1450 == <<"2", ":", "5", "0", "P", "M">>

\* a 13-cell row: a section with begin and end time
RegularRow(crn, course, instructor, days, begin_time, end_time) ==
    <<Cell(crn, "b"), Cell(course, "font"), Cell(<<"T">>, ""),
      Cell(<<"L">>, ""), Cell(<<"F">>, "p"), Cell(<<"3">>, ""),
      Cell(<<"3", "5">>, ""), Cell(instructor, ""), Cell(days, ""),
      Cell(begin_time, ""), Cell(end_time, ""), Cell(<<"G">>, ""),
      Cell(<<"C", "T", "E">>, "a")>>

\* a 12-cell row: a section with one time cell
ArrangedRow(crn, course, instructor, days, time) ==
    <<Cell(crn, "b"), Cell(course, "font"), Cell(<<"T">>, ""),
      Cell(<<"L">>, ""), Cell(<<"O">>, "p"), Cell(<<"3">>, ""),
      Cell(<<"1", "0", "0">>, ""), Cell(instructor, ""), Cell(days, ""),
      Cell(time, ""), Cell(<<"O">>, ""), Cell(<<"C", "T", "E">>, "a")>>

\* a 10-cell "* Additional Times *" row
AdditionalInPersonRow(days, begin_time, end_time) ==
    <<Blank, Blank, Blank, Blank, Cell(AdditionalTimesMarker, "b"),
      Cell(days, ""), Cell(begin_time, ""), Cell(end_time, ""),
      Cell(<<"C">>, ""), Blank>>

\* a 9-cell "* Additional Times *" row
AdditionalOnlineRow(days, time) ==
    <<Blank, Blank, Blank, Blank, Cell(AdditionalTimesMarker, "b"),
      Cell(days, ""), Cell(time, ""), Cell(<<"O">>, ""), Blank>>

SectionRows ==
    {RegularRow(Crn1, Course1, NotAvailableText,
                <<"T", " ", "R">>, T0930, T1020),
     RegularRow(Crn2, Course2, <<"D">>, <<"M">>, T1220, T1450),
     ArrangedRow(Crn2, Course2, <<"D">>, ArrangedDaysText, Dashes),
     ArrangedRow(Crn1, Course1, <<"D">>, <<"M">>, T0930),
     RegularRow(CrnHeader, Course1, <<"D">>, <<"F">>, T0930, T1020),
     RegularRow(Crn1, Course2, <<"D">>, <<"W">>, NotAvailableText,
                NotAvailableText)}

ContinuationRows ==
    {AdditionalInPersonRow(<<"F">>, T1220, T1450),
     AdditionalInPersonRow(<<"M", " ", "W">>, T0930, T1020),
     AdditionalInPersonRow(ArrangedDaysText, ArrangedTimeText,
                           ArrangedTimeText),
     AdditionalOnlineRow(ArrangedDaysText, ArrangedTimeText),
     AdditionalOnlineRow(<<"T", " ", "R">>, T0930)}

\* rows with a time cell that parse_time cannot parse, or a day token that
\* is not in DAY_MAPPING
MalformedRows ==
    {RegularRow(Crn1, Course1, <<"D">>, <<"M">>, Dashes, Dashes),
     RegularRow(Crn1, Course1, <<"D">>, <<"M", " ", "X">>, T0930, T1020),
     AdditionalOnlineRow(<<"M">>, Dashes),
     RegularRow(Crn1, <<>>, <<"D">>, <<"M">>, Dashes, Dashes)}

\* rows that neither create a section nor extend one
OtherRows ==
    {<<>>,
     <<Cell(<<"I">>, "")>>,
     <<Blank, Blank, Blank, Blank, Cell(<<"x">>, "b"),
       Cell(<<"F">>, ""), Cell(T1220, ""), Cell(T1450, ""),
       Cell(<<"C">>, ""), Blank>>,
     ArrangedRow(Crn2, <<>>, <<"D">>, ArrangedDaysText, Dashes)}

\* "3 TO 4"
CreditRangeText == <<"3", " ", "T", "O", " ", "4">>

\* section rows with a credit range, and with an empty instructor cell
FieldRows ==
    {[RegularRow(Crn2, Course2, <<"D">>, <<"M">>, T1220, T1450)
         EXCEPT ![6] = Cell(CreditRangeText, "")],
     ArrangedRow(Crn1, Course1, <<>>, ArrangedDaysText, Dashes)}

RowInputs ==
    SectionRows \cup ContinuationRows \cup MalformedRows \cup OtherRows
        \cup FieldRows

(***************************************************************************)
(* The parts of the state, and their values while another part runs        *)
(***************************************************************************)

callVars == <<call, args, result>>

rowVars == <<course_sections_map, curr_course, i, row, pc, exc, created,
             extended>>

scrapeVars == <<subjects, subject_i, fetched, all_subjects_map, scrape_pc,
                scrape_exc, served>>

CallsIdle ==
    /\ call = "idle"
    /\ args = <<>>
    /\ result = Ok(<<>>)

RowsIdle ==
    /\ course_sections_map = <<>>
    /\ curr_course = None
    /\ i = 0
    /\ row = <<>>
    /\ pc = "idle"
    /\ exc = ""
    /\ created = <<>>
    /\ extended = {}

instanceVars == <<site, op, op_arg, op_pc, op_result, op_fetches, calls,
                  list_fetches, subjects_known, session>>

ScrapeIdle ==
    /\ subjects = <<>>
    /\ subject_i = 0
    /\ fetched = <<>>
    /\ all_subjects_map = <<>>
    /\ scrape_pc = "idle"
    /\ scrape_exc = ""
    /\ served = <<>>

InstanceIdle ==
    /\ site = <<>>
    /\ op = "none"
    /\ op_arg = <<>>
    /\ op_pc = "idle"
    /\ op_result = Ok(<<>>)
    /\ op_fetches = <<>>
    /\ calls = 0
    /\ list_fetches = 0
    /\ subjects_known = FALSE
    /\ session = "none"

parserVars == <<all_courses_map, current_course_key, current_section_crn,
                parse_pc, subject_n, row_n, parsed_row, page_has_section>>

ParserIdle ==
    /\ all_courses_map = <<>>
    /\ current_course_key = None
    /\ current_section_crn = <<>>
    /\ parse_pc = "idle"
    /\ subject_n = 0
    /\ row_n = 0
    /\ parsed_row = <<>>
    /\ page_has_section = FALSE

(***************************************************************************)
(* process_subject_rows, one row at a time                                 *)
(***************************************************************************)

\* longest row sequence explored
MaxRows == 3

InitRows ==
    /\ CallsIdle
    /\ ScrapeIdle
    /\ InstanceIdle
    /\ ParserIdle
    /\ course_sections_map = <<>>
    /\ curr_course = None
    /\ i = 0
    /\ row = <<>>
    /\ pc = "loop"
    /\ exc = ""
    /\ created = <<>>
    /\ extended = {}

\* a row that process_subject_rows hands to parse_additional_times_row
IsContinuationRow(r) ==
    \/ Len(r) = 9 /\ is_additional_times_row(r, 9)
    \/ Len(r) = 10 /\ is_additional_times_row(r, 10)

\* the loop body ran to its end (with or without "continue")
RowDone(r) ==
    /\ pc = "loop"
    /\ i < MaxRows
    /\ \E st \in {ProcessRow(course_sections_map, curr_course, r)} :
          /\ st.exc = ""
          /\ row' = r
          /\ i' = i + 1
          /\ course_sections_map' = st.map
          /\ curr_course' = st.curr
          /\ created' =
                IF st.made
                THEN Append(created, <<st.curr, Len(Get(st.map, st.curr))>>)
                ELSE created
          /\ extended' =
                IF IsContinuationRow(r) /\ created # <<>>
                THEN extended \cup {created[Len(created)]}
                ELSE extended
    /\ UNCHANGED <<pc, exc>>
    /\ UNCHANGED <<callVars, scrapeVars, instanceVars, parserVars>>

\* the loop body raised: nothing catches it, process_subject_rows is left
RowRaised(r) ==
    /\ pc = "loop"
    /\ i < MaxRows
    /\ \E st \in {ProcessRow(course_sections_map, curr_course, r)} :
          /\ st.exc # ""
          /\ row' = r
          /\ i' = i + 1
          /\ course_sections_map' = st.map
          /\ exc' = st.exc
    /\ pc' = "raised"
    /\ UNCHANGED <<curr_course, created, extended>>
    /\ UNCHANGED <<callVars, scrapeVars, instanceVars, parserVars>>

\* the rows are exhausted: return course_sections_map
RowsReturn ==
    /\ pc = "loop"
    /\ pc' = "returned"
    /\ UNCHANGED <<course_sections_map, curr_course, i, row, exc, created,
                   extended>>
    /\ UNCHANGED <<callVars, scrapeVars, instanceVars, parserVars>>

NextRows ==
    \/ \E r \in RowInputs : RowDone(r)
    \/ \E r \in RowInputs : RowRaised(r)
    \/ RowsReturn

SpecRows == InitRows /\ [][NextRows]_vars

(***************************************************************************)
(* Calls of the pure functions on inputs drawn from bounded sets           *)
(***************************************************************************)

\* largest minute of a generated time string
MaxMinute == 59

AmPm == {<<"A", "M">>, <<"P", "M">>}

\* "H:MMAM" / "HH:MMPM"; pad gives the hour a leading zero below 10
TimeStr(h, m, ap, pad) ==
    (IF h < 10 /\ ~pad THEN <<DigitChars[h + 1]>>
     ELSE <<DigitChars[(h \div 10) + 1], DigitChars[(h % 10) + 1]>>)
    \o <<":", DigitChars[(m \div 10) + 1], DigitChars[(m % 10) + 1]>>
    \o ap

ValidTimes ==
    {TimeStr(h, m, ap, pad) :
        h \in 1..12, m \in 0..MaxMinute, ap \in AmPm, pad \in BOOLEAN}

\* "-----", "9:30", "TBA", "9:30 AM", ""
OtherTimes ==
    {None, <<>>, ArrangedTimeText,
     <<"-", "-", "-", "-", "-">>,
     <<"9", ":", "3", "0">>,
     <<"T", "B", "A">>,
     <<"9", ":", "3", "0", " ", "A", "M">>}

TimeInputs == ValidTimes \cup OtherTimes

\* the times determine_meeting_times is called with
FewTimes ==
    {None, <<>>, ArrangedTimeText,
     <<"-", "-", "-", "-", "-">>,
     TimeStr(9, 30, <<"A", "M">>, FALSE),
     TimeStr(10, 20, <<"A", "M">>, FALSE),
     TimeStr(12, 20, <<"P", "M">>, FALSE),
     TimeStr(2, 50, <<"P", "M">>, FALSE)}

\* "M", "T R", "M W F", "S U", "X", "M X", "X F", "MW", " "
DaysInputs ==
    {None, <<>>, ArrangedDaysText,
     <<"M">>,
     <<"T", " ", "R">>,
     <<"M", " ", "W", " ", "F">>,
     <<"S", " ", "U">>,
     <<"X">>,
     <<"M", " ", "X">>,
     <<"X", " ", "F">>,
     <<"M", "W">>}

InitCalls ==
    /\ call = "idle"
    /\ args = <<>>
    /\ result = Ok(<<>>)
    /\ RowsIdle
    /\ ScrapeIdle
    /\ InstanceIdle
    /\ ParserIdle

CallParseTime ==
    /\ call = "idle"
    /\ \E t \in TimeInputs :
          /\ args' = <<t>>
          /\ result' = parse_time(t)
    /\ call' = "parse_time"
    /\ UNCHANGED <<rowVars, scrapeVars, instanceVars, parserVars>>

CallDetermineMeetingTimes ==
    /\ call = "idle"
    /\ \E d \in DaysInputs, b \in FewTimes, e \in FewTimes :
          /\ args' = <<d, b, e>>
          /\ result' = determine_meeting_times(d, b, e)
    /\ call' = "determine_meeting_times"
    /\ UNCHANGED <<rowVars, scrapeVars, instanceVars, parserVars>>

ReturnCall ==
    /\ call \notin {"idle"}
    /\ call' = "idle"
    /\ args' = <<>>
    /\ result' = Ok(<<>>)
    /\ UNCHANGED <<rowVars, scrapeVars, instanceVars, parserVars>>

NextCalls == CallParseTime \/ CallDetermineMeetingTimes \/ ReturnCall

SpecCalls == InitCalls /\ [][NextCalls]_vars

(***************************************************************************)
(* TimetableFetcher.fetch_html                                             *)
(***************************************************************************)

\* None, where the markup of a page is expected
NoneHtml == [none |-> TRUE]

\* the classes an exception of the given class is an instance of
\* (requests.exceptions; RuntimeError stands for any other exception)
Superclasses(e) ==
    CASE e = "Timeout"          -> {"Timeout", "RequestException"}
      [] e = "ConnectTimeout"   -> {"ConnectTimeout", "ConnectionError",
                                    "Timeout", "RequestException"}
      [] e = "HTTPError"        -> {"HTTPError", "RequestException"}
      [] e = "ConnectionError"  -> {"ConnectionError", "RequestException"}
      [] e = "TooManyRedirects" -> {"TooManyRedirects", "RequestException"}
      [] OTHER                  -> {e}

\* the except clauses without the last, generic one
ExceptClausesMutantNoGeneric == {"Timeout", "HTTPError", "ConnectionError"}

\* the except clauses of fetch_html, each of which returns None
ExceptClauses == {"Timeout", "HTTPError", "ConnectionError", "RequestException"}

\* response.raise_for_status()
RaisesForStatus(status) == status >= 400 /\ status < 600

\* the transport of one request: session.post raises t.raises (or returns
\* when it is ""), the response has status t.status and markup t.html
fetch_html(t) ==
    LET raised == IF t.raises # "" THEN t.raises
                  ELSE IF RaisesForStatus(t.status) THEN "HTTPError"
                  ELSE ""
    IN  IF raised = ""
        THEN [exc |-> "", val |-> t.html]
        ELSE IF Superclasses(raised) \cap ExceptClauses # {}
        THEN [exc |-> "", val |-> NoneHtml]
        ELSE [exc |-> raised, val |-> NoneHtml]

(***************************************************************************)
(* TimetableScraper                                                        *)
(***************************************************************************)

\* "202509", the term of the scraper, and "202601", another term
Term == <<"2", "0", "2", "5", "0", "9">>

OtherTerm == <<"2", "0", "2", "6", "0", "1">>

\* the characters of [A-Z0-9]
UpperAlnum ==
    {"A", "B", "C", "D", "E", "F", "G", "H", "I", "J", "K", "L", "M", "N",
     "O", "P", "Q", "R", "S", "T", "U", "V", "W", "X", "Y", "Z",
     "0", "1", "2", "3", "4", "5", "6", "7", "8", "9"}

\* list(codes): every occurrence is kept
UniqueMutantKeep(codes) == codes

\* dict.fromkeys(codes): first occurrences, in order
RECURSIVE Unique(_)
Unique(codes) ==
    IF codes = <<>> THEN <<>>
    ELSE LET rest == Unique(Slice(codes, 1, Len(codes) - 1))
             c    == codes[Len(codes)]
         IN  IF \E j \in 1..Len(rest) : rest[j] = c
             THEN rest
             ELSE Append(rest, c)

\* the script of a page is the sequence of its statements [kind, arg]:
\* case "<arg>":, new Option("...", "<arg>"), break;
\* the span from the first case of the term to the first break; after it
ScriptMatch(script, term) ==
    IF \E a \in 1..Len(script) :
          /\ script[a].kind = "case" /\ script[a].arg = term
          /\ \E b \in (a + 1)..Len(script) : script[b].kind = "break"
    THEN LET a == CHOOSE a \in 1..Len(script) :
                      /\ script[a].kind = "case" /\ script[a].arg = term
                      /\ \E b \in (a + 1)..Len(script) :
                            script[b].kind = "break"
                      /\ \A c \in 1..(a - 1) :
                            ~(/\ script[c].kind = "case"
                              /\ script[c].arg = term
                              /\ \E b \in (c + 1)..Len(script) :
                                    script[b].kind = "break")
             b == CHOOSE b \in (a + 1)..Len(script) :
                      /\ script[b].kind = "break"
                      /\ \A c \in (a + 1)..(b - 1) : script[c].kind # "break"
         IN  [found |-> TRUE, span |-> Slice(script, a + 1, b - 1)]
    ELSE [found |-> FALSE, span |-> <<>>]

\* returns the list of subject codes; never raises
get_subjects(t, term) ==
    LET f == fetch_html(t)
    IN  IF f.exc # "" \/ f.val = NoneHtml
        THEN <<>>
        ELSE LET script_match == ScriptMatch(f.val.script, term)
                 options == SelectSeq(script_match.span,
                                LAMBDA st :
                                    /\ st.kind = "option"
                                    /\ st.arg # <<>>
                                    /\ \A c \in 1..Len(st.arg) :
                                          st.arg[c] \in UpperAlnum)
             IN  IF ~script_match.found
                 THEN <<>>
                 ELSE Unique([j \in 1..Len(options) |-> options[j].arg])

\* process_subject_rows over a list of rows: [exc, map, defaultdict]; the
\* map is a defaultdict(list)
RECURSIVE ProcessRows(_, _, _)

\* after one row: stop on an exception, otherwise go on with the next row
ProcessRest(st, rest) ==
    IF st.exc # ""
    THEN [exc |-> st.exc, map |-> <<>>, defaultdict |-> TRUE]
    ELSE ProcessRows(st.map, st.curr, rest)

ProcessRows(m, curr, rows) ==
    IF rows = <<>>
    THEN [exc |-> "", map |-> m, defaultdict |-> TRUE]
    ELSE ProcessRest(ProcessRow(m, curr, rows[1]), Tail(rows))

process_subject_rows(rows) == ProcessRows(<<>>, None, rows)

\* the rows scrape_subject hands on: too few rows give the empty map
TooFewRows(rows) == Len(rows) <= 1

\* "return {}": a plain dict, not the defaultdict of process_subject_rows
EmptyDict == [exc |-> "", map |-> <<>>, defaultdict |-> FALSE]

\* returns [exc, map, defaultdict]: the CourseMap, or the exception that
\* escaped
scrape_subject(t) ==
    LET f == fetch_html(t)
    IN  IF f.exc # "" \/ f.val = NoneHtml
        THEN EmptyDict
        ELSE IF ~f.val.table
        THEN EmptyDict
        ELSE LET rows == Slice(f.val.trs, 2, Len(f.val.trs))
             IN  IF TooFewRows(rows)
                 THEN EmptyDict
                 ELSE process_subject_rows(rows)

(***************************************************************************)
(* Pages                                                                   *)
(***************************************************************************)

Case(term) == [kind |-> "case", arg |-> term]

Option(code) == [kind |-> "option", arg |-> code]

Break == [kind |-> "break", arg |-> <<>>]

\* most option statements in the term's block of a generated script
MaxOptions == 3

\* "CS", "MATH", "ENGL"
Codes == {<<"C", "S">>, <<"M", "A", "T", "H">>, <<"E", "N", "G", "L">>}

RECURSIVE SeqsUpTo(_, _)
SeqsUpTo(S, n) ==
    IF n = 0 THEN {<<>>}
    ELSE LET shorter == SeqsUpTo(S, n - 1)
         IN  shorter \cup {Append(q, x) : q \in shorter, x \in S}

\* the script of the all-subjects page: the block of the term
\* (the first option is "All Subjects", "%"), and a block of another term
Script(codes, shape) ==
    LET options == [j \in 1..Len(codes) |-> Option(codes[j])]
        other   == <<Case(OtherTerm), Option(<<"%">>),
                     Option(<<"L", "A", "W">>), Break>>
    IN  CASE shape = "plain"    ->
                <<Case(Term), Option(<<"%">>)>> \o options \o <<Break>> \o other
          [] shape = "last"     ->
                other \o <<Case(Term), Option(<<"%">>)>> \o options \o <<Break>>
          [] shape = "no_case"  -> other
          [] shape = "no_break" -> <<Case(Term), Option(<<"%">>)>> \o options

Html(table, trs, script) == [table |-> table, trs |-> trs, script |-> script]

Transport(raises, status, html) ==
    [raises |-> raises, status |-> status, html |-> html]

\* what session.post can raise
PostRaises ==
    {"Timeout", "ConnectTimeout", "ConnectionError", "TooManyRedirects",
     "RuntimeError"}

FailedTransports ==
    {Transport(e, 0, NoneHtml) : e \in PostRaises}
        \cup {Transport("", st, Html(FALSE, <<>>, <<>>)) : st \in {404, 500}}

\* the header row of the results table
HeaderRow == <<Cell(<<"C", "R", "N">>, "b")>>

Row1 == RegularRow(Crn1, Course1, NotAvailableText, <<"T", " ", "R">>,
                   T0930, T1020)

Row2 == ArrangedRow(Crn2, Course2, <<"D">>, ArrangedDaysText, Dashes)

\* pages of one subject: the rows after the header
SubjectRows ==
    {<<Row1, AdditionalInPersonRow(<<"F">>, T1220, T1450)>>,
     <<Row2, Row1>>,
     <<Row1>>,
     <<>>,
     <<Row1, RegularRow(Crn1, Course1, <<"D">>, <<"M">>, Dashes, Dashes)>>,
     <<Row2, RegularRow(Crn1, Course1, <<"D">>, <<"M", " ", "X">>,
                        T0930, T1020)>>}

SubjectTransports ==
    FailedTransports
        \cup {Transport("", 200, Html(TRUE, <<HeaderRow>> \o rows, <<>>)) :
                 rows \in SubjectRows}
        \cup {Transport("", 200, Html(FALSE, <<>>, <<>>))}

AllSubjectsTransports ==
    FailedTransports
        \cup {Transport("", 200, Html(FALSE, <<>>, Script(codes, shape))) :
                 codes \in SeqsUpTo(Codes, MaxOptions),
                 shape \in {"plain", "last", "no_case", "no_break"}}

(***************************************************************************)
(* scrape_all_subjects, one fetch at a time                                *)
(***************************************************************************)

InitScrape ==
    /\ CallsIdle
    /\ RowsIdle
    /\ InstanceIdle
    /\ ParserIdle
    /\ subjects = <<>>
    /\ subject_i = 0
    /\ fetched = <<>>
    /\ all_subjects_map = <<>>
    /\ scrape_pc = "start"
    /\ scrape_exc = ""
    /\ served = <<>>

\* subjects = self.get_subjects(); no subject: return {}
GetSubjects(t) ==
    /\ scrape_pc = "start"
    /\ fetched' = <<[subject |-> <<"%">>, transport |-> t,
                     ret |-> fetch_html(t)]>>
    /\ \E found \in {get_subjects(t, Term)} :
          /\ subjects' = found
          /\ scrape_pc' = IF found = <<>> THEN "returned" ELSE "loop"
    /\ UNCHANGED <<subject_i, all_subjects_map, scrape_exc, served>>
    /\ UNCHANGED <<callVars, rowVars, instanceVars, parserVars>>

\* the subject is added whether or not its map is empty
AddSubjectMutantAlways(m, subject, course_sections) ==
    Put(m, subject, course_sections)

\* lines 545-546: the subject is added only when its map is not empty
AddSubject(m, subject, course_sections) ==
    IF course_sections # <<>>
    THEN Put(m, subject, course_sections)
    ELSE m

\* one iteration of scrape_multiple_subjects
ScrapeNext(t) ==
    /\ scrape_pc = "loop"
    /\ subject_i < Len(subjects)
    /\ \E r \in {scrape_subject(t)} :
          /\ r.exc = ""
          /\ all_subjects_map' =
                AddSubject(all_subjects_map, subjects[subject_i + 1], r.map)
    /\ fetched' = <<[subject |-> subjects[subject_i + 1], transport |-> t,
                     ret |-> fetch_html(t)]>>
    /\ served' = Append(served, t)
    /\ subject_i' = subject_i + 1
    /\ UNCHANGED <<subjects, scrape_pc, scrape_exc>>
    /\ UNCHANGED <<callVars, rowVars, instanceVars, parserVars>>

\* scrape_subject raised: nothing catches it, scrape_all_subjects is left
ScrapeRaised(t) ==
    /\ scrape_pc = "loop"
    /\ subject_i < Len(subjects)
    /\ \E r \in {scrape_subject(t)} :
          /\ r.exc # ""
          /\ scrape_exc' = r.exc
    /\ fetched' = <<[subject |-> subjects[subject_i + 1], transport |-> t,
                     ret |-> fetch_html(t)]>>
    /\ served' = Append(served, t)
    /\ subject_i' = subject_i + 1
    /\ scrape_pc' = "raised"
    /\ UNCHANGED <<subjects, all_subjects_map>>
    /\ UNCHANGED <<callVars, rowVars, instanceVars, parserVars>>

\* the subjects are exhausted: return all_subjects_map
ScrapeReturn ==
    /\ scrape_pc = "loop"
    /\ subject_i = Len(subjects)
    /\ scrape_pc' = "returned"
    /\ UNCHANGED <<subjects, subject_i, fetched, all_subjects_map, scrape_exc,
                   served>>
    /\ UNCHANGED <<callVars, rowVars, instanceVars, parserVars>>

NextScrape ==
    \/ \E t \in AllSubjectsTransports : GetSubjects(t)
    \/ \E t \in SubjectTransports : ScrapeNext(t)
    \/ \E t \in SubjectTransports : ScrapeRaised(t)
    \/ ScrapeReturn

SpecScrape == InitScrape /\ [][NextScrape]_vars

(***************************************************************************)
(* The methods of a TimetableScraper instance                              *)
(***************************************************************************)

LowerChars ==
    <<"a", "b", "c", "d", "e", "f", "g", "h", "i", "j", "k", "l", "m",
      "n", "o", "p", "q", "r", "s", "t", "u", "v", "w", "x", "y", "z">>

UpperChars ==
    <<"A", "B", "C", "D", "E", "F", "G", "H", "I", "J", "K", "L", "M",
      "N", "O", "P", "Q", "R", "S", "T", "U", "V", "W", "X", "Y", "Z">>

\* [A-Za-z]
IsLetter(c) == \E j \in 1..26 : c = LowerChars[j] \/ c = UpperChars[j]

\* str.upper(), one character
UpperChar(c) ==
    IF \E j \in 1..26 : c = LowerChars[j]
    THEN UpperChars[CHOOSE j \in 1..26 : c = LowerChars[j]]
    ELSE c

\* the text as it is, letter case kept
UpperMutantSame(s) == s

\* str.upper()
Upper(s) == [j \in 1..Len(s) |-> UpperChar(s[j])]

\* needle in hay, for two texts
Contains(hay, needle) ==
    \E a \in 0..(Len(hay) - Len(needle)) :
        \A j \in 1..Len(needle) : hay[a + j] = needle[j]

\* course_pattern.match(course) for ^[A-Za-z]+-\d{4}$ ; the $ also matches
\* before a newline that ends the text
MatchesCoursePattern(course) ==
    \E n \in 1..Len(course) :
        /\ \A j \in 1..n : IsLetter(course[j])
        /\ Len(course) >= n + 5
        /\ course[n + 1] = "-"
        /\ \A j \in (n + 2)..(n + 5) : IsDigit(course[j])
        /\ \/ Len(course) = n + 5
           \/ Len(course) = n + 6 /\ course[n + 6] = "\n"

\* a page without results table
NoTablePage == Transport("", 200, Html(FALSE, <<>>, <<>>))

\* the transport that answers fetch_html(subject)
PageOf(s, subject) ==
    IF subject = <<"%">> THEN s.list
    ELSE IF subject \in DOMAIN s.pages THEN s.pages[subject]
    ELSE NoTablePage

\* the outcome of a method: [exc, val, fetches], fetches being the subjects
\* fetch_html was called with
Outcome(e, v, f) == [exc |-> e, val |-> v, fetches |-> f]

\* the method called get_subjects first: one fetch of "%" before the rest
AfterListFetch(r) == Outcome(r.exc, r.val, <<<<"%">>>> \o r.fetches)

\* lines 543-548: the loop of scrape_multiple_subjects from subject k on
RECURSIVE ScrapeFrom(_, _, _, _)

ScrapeStep(s, subject_list, k, acc, r) ==
    IF r.exc # ""
    THEN Outcome(r.exc, <<>>, SubSeq(subject_list, 1, k))
    ELSE ScrapeFrom(s, subject_list, k + 1,
                    AddSubject(acc, subject_list[k], r.map))

ScrapeFrom(s, subject_list, k, acc) ==
    IF k > Len(subject_list)
    THEN Outcome("", acc, subject_list)
    ELSE ScrapeStep(s, subject_list, k, acc,
                    scrape_subject(PageOf(s, subject_list[k])))

scrape_multiple_subjects(s, subject_list) ==
    ScrapeFrom(s, subject_list, 1, <<>>)

\* lines 560-565
ScrapeListed(s, subject_list) ==
    IF subject_list = <<>>
    THEN Outcome("", <<>>, <<>>)
    ELSE scrape_multiple_subjects(s, subject_list)

scrape_all_subjects(s) ==
    AfterListFetch(ScrapeListed(s, get_subjects(s.list, Term)))

\* lines 586-590: the courses of one subject whose key contains the code,
\* letter case ignored, are put under the subject
RECURSIVE PutAll(_, _)
PutAll(d, items) ==
    IF items = <<>> THEN d
    ELSE PutAll(Put(d, items[1].key, items[1].val), Tail(items))

MatchingCourses(course_map, course_code) ==
    SelectSeq(course_map,
              LAMBDA it : Contains(Upper(it.key), Upper(course_code)))

AddMatches(results, subject, matches) ==
    IF matches = <<>>
    THEN results
    ELSE Put(results, subject,
             PutAll(IF HasKey(results, subject)
                    THEN Get(results, subject)
                    ELSE <<>>,
                    matches))

\* lines 584-592: the loop of find_course from subject k on
RECURSIVE FindCourseFrom(_, _, _, _, _)

FindCourseStep(s, subject_list, k, course_code, results, r) ==
    IF r.exc # ""
    THEN Outcome(r.exc, <<>>, SubSeq(subject_list, 1, k))
    ELSE FindCourseFrom(s, subject_list, k + 1, course_code,
                        AddMatches(results, subject_list[k],
                                   MatchingCourses(r.map, course_code)))

FindCourseFrom(s, subject_list, k, course_code, results) ==
    IF k > Len(subject_list)
    THEN Outcome("", results, subject_list)
    ELSE FindCourseStep(s, subject_list, k, course_code, results,
                        scrape_subject(PageOf(s, subject_list[k])))

find_course(s, course_code) ==
    AfterListFetch(
        FindCourseFrom(s, get_subjects(s.list, Term), 1, course_code, <<>>))

\* the last match instead of the first
LeastMutantGreatest(S) == CHOOSE x \in S : \A y \in S : y <= x

\* least element of a non-empty set of numbers
Least(S) == CHOOSE x \in S : \A y \in S : x <= y

\* lines 612-613: the sections of a list whose crn equals the argument
\* (dict.get gives None for a missing crn, and None == None holds)
CrnHits(sections, crn) ==
    {n \in 1..Len(sections) : sections[n].crn = crn}

\* the courses of a CourseMap with such a section
CrnCourses(course_map, crn) ==
    {j \in 1..Len(course_map) : CrnHits(course_map[j].val, crn) # {}}

\* "return None"
NoSection == [found |-> FALSE]

\* lines 614-618: the first match in the order of the two loops
FirstSection(subject, item, crn) ==
    [found   |-> TRUE,
     subject |-> subject,
     course  |-> item.key,
     section |-> item.val[Least(CrnHits(item.val, crn))]]

\* lines 609-619: the loop of find_section_by_crn from subject k on
RECURSIVE FindCrnFrom(_, _, _, _)

FindCrnStep(s, subject_list, k, crn, r) ==
    IF r.exc # ""
    THEN Outcome(r.exc, NoSection, SubSeq(subject_list, 1, k))
    ELSE IF CrnCourses(r.map, crn) # {}
    THEN Outcome("",
                 FirstSection(subject_list[k],
                              r.map[Least(CrnCourses(r.map, crn))], crn),
                 SubSeq(subject_list, 1, k))
    ELSE FindCrnFrom(s, subject_list, k + 1, crn)

FindCrnFrom(s, subject_list, k, crn) ==
    IF k > Len(subject_list)
    THEN Outcome("", NoSection, subject_list)
    ELSE FindCrnStep(s, subject_list, k, crn,
                     scrape_subject(PageOf(s, subject_list[k])))

find_section_by_crn(s, crn) ==
    AfterListFetch(FindCrnFrom(s, get_subjects(s.list, Term), 1, crn))

\* line 669: courses[course_formatted]; the defaultdict of
\* process_subject_rows gives [] for a missing key, the plain dict of
\* "return {}" raises KeyError
CourseLookup(r, course_formatted, subject) ==
    IF r.exc # ""
    THEN Outcome(r.exc, <<>>, <<subject>>)
    ELSE IF HasKey(r.map, course_formatted)
    THEN Outcome("", Get(r.map, course_formatted), <<subject>>)
    ELSE IF r.defaultdict
    THEN Outcome("", <<>>, <<subject>>)
    ELSE Outcome("KeyError", <<>>, <<subject>>)

\* lines 665-670, for the two parts of course.split("-")
SectionsOf(s, subject_all_caps, course_num) ==
    CourseLookup(scrape_subject(PageOf(s, subject_all_caps)),
                 subject_all_caps \o <<"-">> \o course_num,
                 subject_all_caps)

SectionsOfParts(s, parts) == SectionsOf(s, Upper(parts[1]), parts[2])

get_all_sections_for_course(s, course) ==
    IF ~MatchesCoursePattern(course)
    THEN Outcome("ValueError", <<>>, <<>>)
    ELSE SectionsOfParts(s, SplitOn(course, "-"))

(***************************************************************************)
(* The server, as one instance sees it                                     *)
(***************************************************************************)

\* "83489", "54321", "65432", "00000"
Crn3 == <<"8", "3", "4", "8", "9">>

Crn4 == <<"5", "4", "3", "2", "1">>

Crn5 == <<"6", "5", "4", "3", "2">>

CrnAbsent == <<"0", "0", "0", "0", "0">>

\* "MATH-1225", "MATH-1226"
Course3 == <<"M", "A", "T", "H", "-", "1", "2", "2", "5">>

Course4 == <<"M", "A", "T", "H", "-", "1", "2", "2", "6">>

\* "CS", "MATH"
SubjectCS == <<"C", "S">>

SubjectMATH == <<"M", "A", "T", "H">>

\* a second section of CS-2114
Row3 == RegularRow(Crn3, Course1, <<"D">>, <<"M", " ", "W">>, T1220, T1450)

\* a section of CS-1064 whose first cell holds no CRN
RowNoCrn == RegularRow(<<>>, Course2, <<"D">>, <<"F">>, T0930, T1020)

\* a row with a time cell that parse_time cannot parse
RowBadTime == RegularRow(Crn1, Course1, <<"D">>, <<"M">>, Dashes, Dashes)

RowM1 == RegularRow(Crn4, Course3, <<"J">>, <<"M", " ", "W", " ", "F">>,
                    T0930, T1020)

RowM2 == RegularRow(Crn5, Course4, <<"B">>, <<"T", " ", "R">>, T1220, T1450)

\* a page with a results table: the header row and the given rows
TablePage(rows) == Transport("", 200, Html(TRUE, <<HeaderRow>> \o rows, <<>>))

\* a section of CS-1064 with the CRN of Row3
RowSameCrn == RegularRow(Crn3, Course2, <<"D">>, <<"F">>, T0930, T1020)

\* the answers to a fetch of "CS"
PagesCS ==
    {TablePage(<<Row1, Row2, Row3>>),
     TablePage(<<Row1, RowSameCrn, Row3>>),
     TablePage(<<Row1>>),
     TablePage(<<>>),
     TablePage(<<Row1, RowBadTime>>),
     TablePage(<<RowNoCrn, Row1>>),
     NoTablePage,
     Transport("Timeout", 0, NoneHtml)}

\* the answers to a fetch of "MATH"
PagesMATH ==
    {TablePage(<<RowM1, RowM2>>),
     Transport("ConnectionError", 0, NoneHtml)}

\* the answers to a fetch of "%"
Lists ==
    {Transport("", 200,
               Html(FALSE, <<>>, Script(<<SubjectCS, SubjectMATH>>, "plain"))),
     Transport("", 200,
               Html(FALSE, <<>>,
                    Script(<<SubjectMATH, SubjectCS, SubjectMATH>>, "last"))),
     Transport("", 200, Html(FALSE, <<>>, Script(<<>>, "no_case"))),
     Transport("Timeout", 0, NoneHtml)}

Site(list, cs, math) ==
    [list  |-> list,
     pages |-> (SubjectCS :> cs) @@ (SubjectMATH :> math)]

Sites == {Site(l, c, m) : l \in Lists, c \in PagesCS, m \in PagesMATH}

\* the arguments the methods are called with
SubjectArgs == {SubjectCS, SubjectMATH}

\* "cs-2114", "-1", "2114", "PHYS"
CourseCodeArgs ==
    {<<"c", "s", "-", "2", "1", "1", "4">>, <<"-", "1">>,
     <<"2", "1", "1", "4">>, <<"P", "H", "Y", "S">>}

\* two CRNs of the CS pages, one of the MATH page, one of no page, "" and
\* None
CrnArgs == {Crn1, Crn3, Crn4, CrnAbsent, <<>>, None}

\* "CS-2114", "cs-1064", "CS-9999", "MATH-1225", "CS2114", "CS-211",
\* "CS-21145", "-2114", "C5-2114", "CS-2114\n"
CourseArgs ==
    {Course1,
     <<"c", "s", "-", "1", "0", "6", "4">>,
     <<"C", "S", "-", "9", "9", "9", "9">>,
     Course3,
     <<"C", "S", "2", "1", "1", "4">>,
     <<"C", "S", "-", "2", "1", "1">>,
     <<"C", "S", "-", "2", "1", "1", "4", "5">>,
     <<"-", "2", "1", "1", "4">>,
     <<"C", "5", "-", "2", "1", "1", "4">>,
     <<"C", "S", "-", "2", "1", "1", "4", "\n">>}

(***************************************************************************)
(* One TimetableScraper instance and the calls made on it                  *)
(***************************************************************************)

\* most calls made on one instance
MaxCalls == 2

\* the methods that scan every subject of the term
BatchMethods == {"scrape_all_subjects", "find_course", "find_section_by_crn"}

\* the methods that start with self.get_subjects()
ListingMethods == BatchMethods \cup {"get_subjects"}

\* TimetableScraper(term): the fetcher opens its session
InitInstance ==
    /\ CallsIdle
    /\ RowsIdle
    /\ ScrapeIdle
    /\ site \in Sites
    /\ op = "none"
    /\ op_arg = <<>>
    /\ op_pc = "idle"
    /\ op_result = Ok(<<>>)
    /\ op_fetches = <<>>
    /\ calls = 0
    /\ list_fetches = 0
    /\ subjects_known = FALSE
    /\ session = "open"
    /\ ParserIdle

\* the client can call a method: no call is running, the instance was not
\* closed
CanCall ==
    /\ op_pc # "running"
    /\ session = "open"
    /\ calls < MaxCalls

\* a method is called and runs against the server; op_result and
\* op_fetches hold its outcome r, which the caller gets when the call ends
Called(method, arg, r) ==
    /\ op' = method
    /\ op_arg' = arg
    /\ op_pc' = "running"
    /\ op_result' = [exc |-> r.exc, val |-> r.val]
    /\ op_fetches' = r.fetches
    /\ calls' = calls + 1
    /\ UNCHANGED <<site, list_fetches, subjects_known, session>>
    /\ UNCHANGED <<callVars, rowVars, scrapeVars, parserVars>>

CallGetSubjects ==
    /\ CanCall
    /\ \E r \in {Outcome("", get_subjects(site.list, Term), <<<<"%">>>>)} :
          Called("get_subjects", <<>>, r)

CallScrapeSubject(subject) ==
    /\ CanCall
    /\ \E r \in {scrape_subject(PageOf(site, subject))} :
          Called("scrape_subject", subject, Outcome(r.exc, r.map, <<subject>>))

CallScrapeAllSubjects ==
    /\ CanCall
    /\ \E r \in {scrape_all_subjects(site)} :
          Called("scrape_all_subjects", <<>>, r)

CallFindCourse(course_code) ==
    /\ CanCall
    /\ \E r \in {find_course(site, course_code)} :
          Called("find_course", course_code, r)

CallFindSectionByCrn(crn) ==
    /\ CanCall
    /\ \E r \in {find_section_by_crn(site, crn)} :
          Called("find_section_by_crn", crn, r)

CallGetAllSectionsForCourse(course) ==
    /\ CanCall
    /\ \E r \in {get_all_sections_for_course(site, course)} :
          Called("get_all_sections_for_course", course, r)

\* the call ends: it returns op_result.val or raises op_result.exc
Return ==
    /\ op_pc = "running"
    /\ op_pc' = IF op_result.exc = "" THEN "returned" ELSE "raised"
    /\ list_fetches' = IF op \in ListingMethods
                       THEN list_fetches + 1
                       ELSE list_fetches
    /\ subjects_known' = (\/ subjects_known
                          \/ op = "get_subjects" /\ op_result.val # <<>>
                          \/ op \in BatchMethods /\ Len(op_fetches) > 1)
    /\ UNCHANGED <<site, op, op_arg, op_result, op_fetches, calls, session>>
    /\ UNCHANGED <<callVars, rowVars, scrapeVars, parserVars>>

\* close(): self.fetcher.close_session(); the instance is not used again
Close ==
    /\ op_pc # "running"
    /\ session = "open"
    /\ session' = "closed"
    /\ UNCHANGED <<site, op, op_arg, op_pc, op_result, op_fetches, calls,
                   list_fetches, subjects_known>>
    /\ UNCHANGED <<callVars, rowVars, scrapeVars, parserVars>>

NextInstance ==
    \/ CallGetSubjects
    \/ \E a \in SubjectArgs : CallScrapeSubject(a)
    \/ CallScrapeAllSubjects
    \/ \E a \in CourseCodeArgs : CallFindCourse(a)
    \/ \E a \in CrnArgs : CallFindSectionByCrn(a)
    \/ \E a \in CourseArgs : CallGetAllSectionsForCourse(a)
    \/ Return
    \/ Close

SpecInstance == InitInstance /\ [][NextInstance]_vars

\* a call that was made ends (every request has a timeout); nothing makes
\* the client call close()
SpecInstanceFair == SpecInstance /\ WF_vars(Return)

(***************************************************************************)
(* TimetableParser.parse_courses: one course map kept across all subjects. *)
(* A row is given by what the two row parsers return for it: the list (or  *)
(* None) of _parse_additional_meeting_row and the dict (or None) of        *)
(* _parse_section_row.  A CRN is an integer; the cursor                    *)
(* current_section_crn is <<>> for None and <<n>> for the CRN n.           *)
(***************************************************************************)

\* "return None" of _parse_section_row
NoData == [none |-> TRUE]

\* an entry of the list _parse_meeting_time_cells returns
MeetingTime(day) ==
    [day       |-> day,
     startTime |-> <<"0", "9", ":", "3", "0">>,
     endTime   |-> <<"1", "0", ":", "2", "0">>,
     location  |-> <<"G">>]

\* the dict _parse_section_row returns
SectionData(subject, courseNumber, crn, meetingTimes) ==
    [crn          |-> crn,
     subject      |-> subject,
     courseNumber |-> courseNumber,
     courseName   |-> <<"T">>,
     sectionType  |-> "LECTURE",
     capacity     |-> 35,
     instructor   |-> <<"S", "t", "a", "f", "f">>,
     examCode     |-> <<"C", "T", "E">>,
     meetingTimes |-> meetingTimes,
     credits      |-> 3,
     mode         |-> <<"F">>]

\* a row: the number of its cells and what the row parsers return for it
ParsedRow(num_cells, additional_meeting_list, parsed_section_data) ==
    [num_cells               |-> num_cells,
     additional_meeting_list |-> additional_meeting_list,
     parsed_section_data     |-> parsed_section_data]

\* the rows of the pages: without cells, "* Additional Times *" rows with
\* and without meeting times, section rows, and a row that is neither
ParsedRows ==
    {ParsedRow(0, NoneList, NoData),
     ParsedRow(1, NoneList, NoData),
     ParsedRow(10, <<>>, NoData),
     ParsedRow(10, <<MeetingTime("FRIDAY")>>, NoData),
     ParsedRow(13, NoneList,
               SectionData(SubjectCS, <<"2", "1", "1", "4">>, 83488,
                           <<MeetingTime("TUESDAY")>>)),
     ParsedRow(13, NoneList,
               SectionData(SubjectCS, <<"2", "1", "1", "4">>, 83489,
                           <<>>)),
     ParsedRow(13, NoneList,
               SectionData(SubjectMATH, <<"1", "2", "2", "5", "H">>, 54321,
                           <<MeetingTime("MONDAY")>>))}

\* self.subjects after _initialize_subjects
ParserSubjects == <<SubjectCS, SubjectMATH>>

\* lines 240-254: int of the leading digits of the course number, 0 when
\* there are none
RECURSIVE LeadingDigits(_)
LeadingDigits(t) ==
    IF t # <<>> /\ IsDigit(t[1])
    THEN <<t[1]>> \o LeadingDigits(Tail(t))
    ELSE <<>>

CourseNumberInt(courseNumber) == DecVal(LeadingDigits(courseNumber))

\* line 256: f"{subject}-{course_number_int}"
CourseKeyOf(data) ==
    data.subject \o <<"-">> \o DecStr(CourseNumberInt(data.courseNumber))

\* the cursor kept from the page before
PageCursorMutantKept(key, crn) == [key |-> key, crn |-> crn]

\* lines 181-182: the cursor at the start of a subject's rows
PageCursor(key, crn) == [key |-> None, crn |-> <<>>]

\* lines 205-206: "if current_course_key and current_section_crn" and
\* "current_course_key in all_courses_map"
HasSectionContext(m, key, crn) ==
    /\ key # None /\ key # <<>>
    /\ crn # <<>> /\ crn[1] # 0
    /\ HasKey(m, key)

\* lines 209-210: the sections of the course with the CRN of the cursor
SectionsWithCrn(courseSections, crn) ==
    {n \in 1..Len(courseSections) : courseSections[n].crn = crn[1]}

\* lines 209-218: the last section with that CRN is extended
ExtendMeetingTimes(course, n, additional_meeting_list) ==
    [course EXCEPT !.courseSections[n].meetingTimes =
                       @ \o additional_meeting_list]

\* the greatest element of a non-empty set of numbers
Greatest(S) == CHOOSE x \in S : \A y \in S : y <= x

\* lines 198-232: a row _parse_additional_meeting_row gave a list for
AdditionalRowOutcome(m, key, crn, additional_meeting_list) ==
    IF /\ HasSectionContext(m, key, crn)
       /\ SectionsWithCrn(Get(m, key).courseSections, crn) # {}
    THEN Put(m, key,
             ExtendMeetingTimes(
                 Get(m, key),
                 Greatest(SectionsWithCrn(Get(m, key).courseSections, crn)),
                 additional_meeting_list))
    ELSE m

\* lines 260-267: the course entry, created when the key is new
CourseEntry(m, key, data) ==
    IF HasKey(m, key)
    THEN Get(m, key)
    ELSE [name           |-> data.courseName,
          subject        |-> data.subject,
          courseNumber   |-> CourseNumberInt(data.courseNumber),
          courseSections |-> <<>>]

\* lines 269-278
section_to_add(data) ==
    [crn          |-> data.crn,
     meetingTimes |-> data.meetingTimes,
     examCode     |-> data.examCode,
     instructor   |-> data.instructor,
     capacity     |-> data.capacity,
     sectionType  |-> data.sectionType,
     credits      |-> data.credits,
     mode         |-> data.mode]

\* lines 256-279: the map after a section row
SectionRowOutcome(m, key, data) ==
    Put(m, key,
        [CourseEntry(m, key, data) EXCEPT !.courseSections =
             Append(@, section_to_add(data))])

InitParse ==
    /\ CallsIdle
    /\ RowsIdle
    /\ ScrapeIdle
    /\ InstanceIdle
    /\ all_courses_map = <<>>
    /\ current_course_key = None
    /\ current_section_crn = <<>>
    /\ parse_pc = "subjects"
    /\ subject_n = 0
    /\ row_n = 0
    /\ parsed_row = <<>>
    /\ page_has_section = FALSE

\* longest page explored, in data rows
MaxPageRows == 2

\* lines 133-179: no HTML, no table or no data row: "continue"
SkipSubject ==
    /\ parse_pc = "subjects"
    /\ subject_n < Len(ParserSubjects)
    /\ subject_n' = subject_n + 1
    /\ UNCHANGED <<all_courses_map, current_course_key, current_section_crn,
                   parse_pc, row_n, parsed_row, page_has_section>>
    /\ UNCHANGED <<callVars, rowVars, scrapeVars, instanceVars>>

\* lines 181-184: the rows of the next subject are entered
StartSubject ==
    /\ parse_pc = "subjects"
    /\ subject_n < Len(ParserSubjects)
    /\ subject_n' = subject_n + 1
    /\ \E c \in {PageCursor(current_course_key, current_section_crn)} :
          /\ current_course_key' = c.key
          /\ current_section_crn' = c.crn
    /\ row_n' = 0
    /\ page_has_section' = FALSE
    /\ parse_pc' = "rows"
    /\ UNCHANGED <<all_courses_map, parsed_row>>
    /\ UNCHANGED <<callVars, rowVars, scrapeVars, instanceVars>>

\* lines 184-294: one iteration of the loop over rows[1:]
ParseRow(r) ==
    /\ parse_pc = "rows"
    /\ row_n < MaxPageRows
    /\ row_n' = row_n + 1
    /\ parsed_row' = r
    /\ IF r.num_cells = 0
       THEN UNCHANGED <<all_courses_map, current_course_key,
                        current_section_crn, page_has_section>>
       ELSE IF r.additional_meeting_list # NoneList
       THEN /\ all_courses_map' =
                  AdditionalRowOutcome(all_courses_map, current_course_key,
                                       current_section_crn,
                                       r.additional_meeting_list)
            /\ UNCHANGED <<current_course_key, current_section_crn,
                           page_has_section>>
       ELSE IF r.parsed_section_data # NoData
       THEN /\ all_courses_map' =
                  SectionRowOutcome(all_courses_map,
                                    CourseKeyOf(r.parsed_section_data),
                                    r.parsed_section_data)
            /\ current_course_key' = CourseKeyOf(r.parsed_section_data)
            /\ current_section_crn' = <<r.parsed_section_data.crn>>
            /\ page_has_section' = TRUE
       ELSE UNCHANGED <<all_courses_map, current_course_key,
                        current_section_crn, page_has_section>>
    /\ UNCHANGED <<parse_pc, subject_n>>
    /\ UNCHANGED <<callVars, rowVars, scrapeVars, instanceVars>>

\* the rows of the page are exhausted (a page that is entered has a data
\* row, line 175)
EndOfRows ==
    /\ parse_pc = "rows"
    /\ row_n >= 1
    /\ parse_pc' = "subjects"
    /\ UNCHANGED <<all_courses_map, current_course_key, current_section_crn,
                   subject_n, row_n, parsed_row, page_has_section>>
    /\ UNCHANGED <<callVars, rowVars, scrapeVars, instanceVars>>

\* lines 296-300: the subjects are exhausted
ParseReturn ==
    /\ parse_pc = "subjects"
    /\ subject_n = Len(ParserSubjects)
    /\ parse_pc' = "returned"
    /\ UNCHANGED <<all_courses_map, current_course_key, current_section_crn,
                   subject_n, row_n, parsed_row, page_has_section>>
    /\ UNCHANGED <<callVars, rowVars, scrapeVars, instanceVars>>

NextParse ==
    \/ SkipSubject
    \/ StartSubject
    \/ \E r \in ParsedRows : ParseRow(r)
    \/ EndOfRows
    \/ ParseReturn

SpecParse == InitParse /\ [][NextParse]_vars

(***************************************************************************)
(* Properties of process_subject_rows                                      *)
(***************************************************************************)

\* the section at <<course, index>> of the map m
SectionAt(m, loc) == Get(m, loc[1])[loc[2]]

\* a 9- or 10-cell row with "* Additional Times *" in bold in its fifth cell
CarriesMarker(r) ==
    /\ Len(r) \in {9, 10}
    /\ r[5].child = "b"
    /\ Strip(r[5].text) = AdditionalTimesMarker

\* this step consumed a continuation row
ContinuationStep == i' = i + 1 /\ CarriesMarker(row')

\* the keys of a map and the number of sections under each
Keys(m) == [j \in 1..Len(m) |-> m[j].key]

Counts(m) == [j \in 1..Len(m) |-> Len(m[j].val)]

\* exactly ["ARR"], or timed entries only
Unmixed(meeting_times) ==
    \/ meeting_times = <<ARR>>
    \/ \A k \in 1..Len(meeting_times) : meeting_times[k] # ARR

\* the entries a continuation row resolves to: all of them for a 9-cell
\* row, the last one for a 10-cell row
Resolved(r) ==
    IF Len(r) = 9
    THEN determine_meeting_times(safe_extract_text(r[6], ""),
                                 safe_extract_text(r[7], ""), None).val
    ELSE LET mt == determine_meeting_times(safe_extract_text(r[6], ""),
                                           safe_extract_text(r[7], ""),
                                           safe_extract_text(r[8], "")).val
         IN  IF mt = <<ARR>> THEN mt ELSE <<mt[Len(mt)]>>

\* C1: a continuation row processed after a section was created appends to
\* the most recently created section only: every section created earlier
\* is unchanged, and the latest keeps what it had as a prefix
C1_OnlyLastSectionExtended ==
    [][(ContinuationStep /\ created # <<>>) =>
          /\ \A n \in 1..(Len(created) - 1) :
                SectionAt(course_sections_map', created[n])
                    = SectionAt(course_sections_map, created[n])
          /\ LET last == created[Len(created)]
                 old  == SectionAt(course_sections_map, last).meeting_times
                 new  == SectionAt(course_sections_map', last).meeting_times
             IN  /\ Len(new) >= Len(old)
                 /\ SubSeq(new, 1, Len(old)) = old]_vars

\* C1 witness: two sections of one course, then a continuation row that
\* extended the second
C1_Witness ==
    /\ pc = "loop"
    /\ Len(created) = 2
    /\ created[1][1] = created[2][1]
    /\ CarriesMarker(row)
    /\ Len(SectionAt(course_sections_map, created[2]).meeting_times) >= 3

\* C2: a continuation row adds no course key and no section
C2_ContinuationAddsNothing ==
    [][ContinuationStep =>
          /\ Keys(course_sections_map') = Keys(course_sections_map)
          /\ Counts(course_sections_map') = Counts(course_sections_map)]_vars

\* C2 witness: a continuation row processed before any section exists, the
\* map still empty
C2_Witness ==
    /\ pc = "loop"
    /\ i >= 1
    /\ CarriesMarker(row)
    /\ created = <<>>
    /\ course_sections_map = <<>>

\* C3 as stated: in the returned map every meeting_times is exactly ["ARR"]
\* or timed entries only
C3_NeverMixed ==
    pc = "returned" =>
        \A n \in 1..Len(created) :
            Unmixed(SectionAt(course_sections_map, created[n]).meeting_times)

\* C3 amended: a section is exactly ["ARR"] or timed entries only unless a
\* continuation row followed it while it was the latest section
C3_UnmixedUnlessExtended ==
    \A n \in 1..Len(created) :
        created[n] \notin extended =>
            Unmixed(SectionAt(course_sections_map, created[n]).meeting_times)

\* C3 witness: a returned map with one section never extended and timed,
\* and one extended section holding "ARR" next to another entry
C3_Witness ==
    /\ pc = "returned"
    /\ \E n \in 1..Len(created) :
          /\ created[n] \notin extended
          /\ SectionAt(course_sections_map, created[n]).meeting_times
                 # <<ARR>>
    /\ \E n \in 1..Len(created) :
          /\ created[n] \in extended
          /\ ~Unmixed(SectionAt(course_sections_map,
                                created[n]).meeting_times)

\* C4 as stated: a continuation row on a section whose list is ["ARR"]
\* leaves only the entries resolved from the row
C4_ArrangedReset ==
    [][(ContinuationStep /\ pc' = "loop" /\ created # <<>>
        /\ SectionAt(course_sections_map,
                     created[Len(created)]).meeting_times = <<ARR>>) =>
          SectionAt(course_sections_map',
                    created[Len(created)]).meeting_times
              = Resolved(row')]_vars

\* C4 amended: the list is not reset, the entries resolved from the row
\* are appended after the "ARR" it held
C4_ArrangedKept ==
    [][(ContinuationStep /\ pc' = "loop" /\ created # <<>>
        /\ SectionAt(course_sections_map,
                     created[Len(created)]).meeting_times = <<ARR>>) =>
          SectionAt(course_sections_map',
                    created[Len(created)]).meeting_times
              = <<ARR>> \o Resolved(row')]_vars

\* C4 witness: an arranged section followed by a continuation row with
\* times: "ARR" first, a timed entry after it
C4_Witness ==
    /\ pc = "loop"
    /\ created # <<>>
    /\ CarriesMarker(row)
    /\ LET mt == SectionAt(course_sections_map,
                           created[Len(created)]).meeting_times
       IN  Len(mt) = 2 /\ mt[1] = ARR /\ mt[2] # ARR

\* "H:MMAM", "HH:MMPM": digits, a colon, two digits, AM or PM
IsTimeText(t) ==
    /\ Len(t) \in {6, 7}
    /\ SubSeq(t, Len(t) - 1, Len(t)) \in AmPm
    /\ t[Len(t) - 4] = ":"
    /\ \A k \in (1..(Len(t) - 2)) \ {Len(t) - 4} : IsDigit(t[k])

\* a time cell that is neither empty, "N/A", the arranged text nor a time
MalformedTime(text) ==
    LET t == Strip(text)
    IN  /\ t # <<>> /\ t # NotAvailableText /\ t # ArrangedTimeText
        /\ ~IsTimeText(t)

\* a new-section or continuation row with days given and a malformed time
HasMalformedTime(r) ==
    LET days  == IF Len(r) \in {9, 10} THEN 6 ELSE 9
        times == CASE Len(r) = 9  -> {7}
                   [] Len(r) = 10 -> {7, 8}
                   [] Len(r) = 12 -> {10}
                   [] Len(r) = 13 -> {10, 11}
                   [] OTHER       -> {}
    IN  /\ Len(r) \in {12, 13} \/ CarriesMarker(r)
        /\ Strip(r[days].text) \notin {<<>>, NotAvailableText, ArrangedDaysText}
        /\ \E c \in times : MalformedTime(r[c].text)

\* C7 as stated: a row with a malformed time cell is skipped, no exception
\* leaves process_subject_rows
C7_MalformedTimeSkipped ==
    HasMalformedTime(row) => pc # "raised"

(***************************************************************************)
(* Properties of parse_time and determine_meeting_times                    *)
(***************************************************************************)

\* the arranged markers of a call determine_meeting_times(days, begin, end)
ArrangedMarkerInput(days, begin_time, end_time) ==
    \/ days \in {None, <<>>, ArrangedDaysText}
    \/ begin_time \in {None, <<>>, ArrangedTimeText}
    \/ end_time \in {<<>>, ArrangedTimeText}

\* C5 as stated: every arranged-marker input gives exactly ["ARR"], and no
\* returned entry has "ARR" as its begin or end time
C5_ArrangedInputsGiveSentinel ==
    call = "determine_meeting_times" =>
        /\ ArrangedMarkerInput(args[1], args[2], args[3]) =>
              result = Ok(<<ARR>>)
        /\ result.exc = "" =>
              \A k \in 1..Len(result.val) :
                  \/ result.val[k] = ARR
                  \/ /\ result.val[k].begin_time # ArrText
                     /\ result.val[k].end_time # ArrText

\* the 24-hour text of hour h (1..12), minute m, AM or PM
Expected24(h, m, ap) ==
    LET hh == IF ap = <<"A", "M">>
              THEN (IF h = 12 THEN 0 ELSE h)
              ELSE (IF h = 12 THEN 12 ELSE h + 12)
    IN  <<DigitChars[(hh \div 10) + 1], DigitChars[(hh % 10) + 1], ":",
          DigitChars[(m \div 10) + 1], DigitChars[(m % 10) + 1]>>

\* C6: parse_time maps every valid 12-hour string to the zero-padded
\* 24-hour text: 12 AM is 00, 12 PM stays 12, other PM hours add 12
C6_ParseTimeTo24Hour ==
    call = "parse_time" =>
        \A h \in 1..12, m \in 0..MaxMinute, ap \in AmPm, pad \in BOOLEAN :
            args[1] = TimeStr(h, m, ap, pad) =>
                result = Ok(Expected24(h, m, ap))

\* C6 witness: "11:59PM" gave "23:59"
C6_Witness ==
    /\ call = "parse_time"
    /\ args[1] = <<"1", "1", ":", "5", "9", "P", "M">>
    /\ result = Ok(<<"2", "3", ":", "5", "9">>)

\* the day numbers of the tokens of days that are day letters, in order
RECURSIVE RecognizedDays(_)
RecognizedDays(toks) ==
    IF toks = <<>> THEN <<>>
    ELSE (IF Len(toks[1]) = 1 /\ toks[1][1] \in DOMAIN DAY_MAPPING
          THEN <<DAY_MAPPING[toks[1][1]]>> ELSE <<>>)
         \o RecognizedDays(Tail(toks))

\* C8 as stated: with days given and times that parse, the call does not
\* raise and returns one entry per recognized day token
C8_UnknownDaysDropped ==
    (/\ call = "determine_meeting_times"
     /\ args[1] \notin {None, <<>>, ArrangedDaysText}
     /\ args[2] \in ValidTimes
     /\ args[3] \in ValidTimes) =>
        /\ result.exc = ""
        /\ [k \in 1..Len(result.val) |-> result.val[k].day]
               = RecognizedDays(SplitWhitespace(args[1]))

(***************************************************************************)
(* Properties of fetch_html and of the scrape operations                   *)
(***************************************************************************)

\* the request failed in the transport: session.post raised a
\* RequestException, or the response carries an error status
IsTransportFailure(t) ==
    \/ t.raises \in {"Timeout", "ConnectTimeout", "ConnectionError",
                     "TooManyRedirects"}
    \/ t.raises = "" /\ t.status \in {404, 500}

\* the page yields sections: scrape_subject returns a non-empty CourseMap
YieldsSections(t) ==
    /\ scrape_subject(t).exc = ""
    /\ scrape_subject(t).map # <<>>

\* C9 as stated: whatever fails for one subject, the call returns, and
\* every subject whose page yields sections is in the result with its map
C9_SubjectFailuresIsolated ==
    /\ scrape_pc # "raised"
    /\ scrape_pc = "returned" =>
          \A k \in 1..Len(served) :
              YieldsSections(served[k]) =>
                  /\ HasKey(all_subjects_map, subjects[k])
                  /\ Get(all_subjects_map, subjects[k])
                         = scrape_subject(served[k]).map

C11_TransportFailureRaisesRuntimeError ==
    (fetched # <<>> /\ IsTransportFailure(fetched[1].transport)) =>
        fetched[1].ret.exc = "RuntimeError"

\* the subjects of the result that map to an empty CourseMap
EmptySubjects(m) == {j \in 1..Len(m) : m[j].val = <<>>}

\* C13: the map scrape_all_subjects returns has a key for a subject
\* exactly when scrape_subject returned a non-empty CourseMap for it, no
\* subject maps to an empty map, and the map is empty when get_subjects
\* gave no subject
C13_KeyIffSubjectHasData ==
    scrape_pc = "returned" =>
        /\ \A k \in 1..Len(served) :
              HasKey(all_subjects_map, subjects[k])
                  <=> scrape_subject(served[k]).map # <<>>
        /\ \A j \in 1..Len(all_subjects_map) :
              \E k \in 1..Len(served) :
                  /\ all_subjects_map[j].key = subjects[k]
                  /\ all_subjects_map[j].val = scrape_subject(served[k]).map
        /\ EmptySubjects(all_subjects_map) = {}
        /\ subjects = <<>> => all_subjects_map = <<>>

\* C13 witness: of three subjects, the page of the second has a table
\* with no data row and the other two are in the result
C13_Witness ==
    /\ scrape_pc = "returned"
    /\ Len(subjects) = 3
    /\ Len(served) = 3
    /\ served[2].raises = ""
    /\ served[2].status = 200
    /\ served[2].html.table
    /\ Len(served[2].html.trs) = 1
    /\ Keys(all_subjects_map) = <<subjects[1], subjects[3]>>

(***************************************************************************)
(* Properties of get_subjects                                              *)
(***************************************************************************)

\* the statement at index c lies between the case marker of the term and
\* the first break; after that marker
InTermBlock(script, c) ==
    \E a \in 1..(c - 1) :
        /\ script[a] = Case(Term)
        /\ \A d \in 1..(a - 1) : script[d] # Case(Term)
        /\ \A d \in (a + 1)..c : script[d].kind # "break"
        /\ \E b \in (c + 1)..Len(script) : script[b].kind = "break"

\* the index of the first option statement of the term's block with the
\* given code
FirstSeen(script, code) ==
    CHOOSE c \in 1..Len(script) :
        /\ InTermBlock(script, c)
        /\ script[c] = Option(code)
        /\ \A d \in 1..(c - 1) :
              ~(InTermBlock(script, d) /\ script[d] = Option(code))

\* the all-subjects page was fetched and get_subjects has returned
SubjectsListed ==
    /\ fetched # <<>>
    /\ fetched[1].subject = <<"%">>
    /\ fetched[1].transport.raises = ""
    /\ fetched[1].ret.exc = ""
    /\ fetched[1].ret.val = fetched[1].transport.html

\* C18: get_subjects returns the codes of the option statements between the
\* case marker of its own term and the first break; after it, and no code
\* found only in another term's block; "%" is never returned, each code
\* appears once and the codes are in first-seen order
C18_SubjectsOfOwnTermBlock ==
    SubjectsListed =>
        LET script == fetched[1].transport.html.script
        IN  /\ \A j \in 1..Len(subjects) :
                  \E c \in 1..Len(script) :
                      /\ InTermBlock(script, c)
                      /\ script[c] = Option(subjects[j])
            /\ \A c \in 1..Len(script) :
                  (/\ InTermBlock(script, c)
                   /\ script[c].kind = "option"
                   /\ script[c].arg # <<"%">>)
                      => \E j \in 1..Len(subjects) : subjects[j] = script[c].arg
            /\ \A j \in 1..Len(subjects) : subjects[j] # <<"%">>
            /\ \A j, k \in 1..Len(subjects) :
                  j < k =>
                      /\ subjects[j] # subjects[k]
                      /\ FirstSeen(script, subjects[j])
                             < FirstSeen(script, subjects[k])

\* C18 witness: the block of the term comes after the block of another
\* term and names MATH, CS and MATH again; the result is MATH, CS
C18_Witness ==
    /\ SubjectsListed
    /\ fetched[1].transport.html.script[1] = Case(OtherTerm)
    /\ Len(fetched[1].transport.html.script) = 10
    /\ fetched[1].transport.html.script[10] = Break
    /\ fetched[1].transport.html.script[9]
           = Option(<<"M", "A", "T", "H">>)
    /\ subjects = <<<<"M", "A", "T", "H">>, <<"C", "S">>>>

(***************************************************************************)
(* Properties of the methods of an instance                                *)
(***************************************************************************)

\* the fetch was answered with a page that holds the results table
HasTable(t) ==
    /\ t.raises = ""
    /\ ~RaisesForStatus(t.status)
    /\ t.html.table

\* the rows of the results table after the header row
DataRows(t) == Slice(t.html.trs, 2, Len(t.html.trs))

\* C12 as stated: for a table with a header row and k >= 1 data rows,
\* scrape_subject returns process_subject_rows of those k rows (k = 1
\* included); it returns the empty map only when the fetch fails, the table
\* is absent or the table has no data row
C12_AllDataRowsAggregated ==
    (op = "scrape_subject" /\ op_pc = "returned") =>
        /\ (/\ HasTable(PageOf(site, op_arg))
            /\ Len(DataRows(PageOf(site, op_arg))) >= 1)
               => op_result.val
                      = process_subject_rows(
                            DataRows(PageOf(site, op_arg))).map
        /\ op_result.val = <<>> =>
               \/ ~HasTable(PageOf(site, op_arg))
               \/ Len(DataRows(PageOf(site, op_arg))) = 0

\* a CRN argument that is malformed or empty: anything but five digits,
\* the empty text and None included
MalformedCrn(crn) ==
    ~(Len(crn) = 5 /\ \A j \in 1..Len(crn) : IsDigit(crn[j]))

\* the section is listed under the course in the scraped map of the subject
ListedUnder(subject, course, section) ==
    /\ HasKey(scrape_subject(PageOf(site, subject)).map, course)
    /\ \E n \in 1..Len(Get(scrape_subject(PageOf(site, subject)).map,
                           course)) :
          Get(scrape_subject(PageOf(site, subject)).map, course)[n] = section

\* some section of some listed subject has the CRN
CrnOnSite(crn) ==
    \E k \in 1..Len(get_subjects(site.list, Term)) :
        CrnCourses(
            scrape_subject(
                PageOf(site, get_subjects(site.list, Term)[k])).map,
            crn) # {}

\* C14 as stated: find_section_by_crn returns None when no section of any
\* subject has the CRN and whenever the CRN argument is malformed or empty,
\* whatever the pages contain; a result it returns has a section whose crn
\* equals the argument, listed under the result's course and subject
C14_CrnLookup ==
    (op = "find_section_by_crn" /\ op_pc = "returned") =>
        /\ ~CrnOnSite(op_arg) => op_result.val = NoSection
        /\ MalformedCrn(op_arg) => op_result.val = NoSection
        /\ op_result.val.found =>
              /\ op_result.val.section.crn = op_arg
              /\ ListedUnder(op_result.val.subject, op_result.val.course,
                             op_result.val.section)

\* the same character, letter case ignored
SameLetter(x, y) ==
    \/ x = y
    \/ \E j \in 1..26 : {x, y} = {LowerChars[j], UpperChars[j]}

\* the course key contains the code as a substring, letter case ignored
KeyContains(key, code) ==
    \E a \in 0..(Len(key) - Len(code)) :
        \A j \in 1..Len(code) : SameLetter(key[a + j], code[j])

\* the CourseMap scrape_subject gives for the k-th listed subject
ListedMap(k) ==
    scrape_subject(PageOf(site, get_subjects(site.list, Term)[k])).map

\* C15: find_course(code) returns exactly the (subject, course key) pairs,
\* over the subjects get_subjects lists, whose course key contains code as a
\* substring ignoring letter case, each with the full section list of that
\* course; a subject without matching course is absent from the result
C15_FindCourseExactMatches ==
    (op = "find_course" /\ op_pc = "returned") =>
        /\ \A k \in 1..Len(get_subjects(site.list, Term)) :
              \A j \in 1..Len(ListedMap(k)) :
                  KeyContains(ListedMap(k)[j].key, op_arg) =>
                      /\ HasKey(op_result.val,
                                get_subjects(site.list, Term)[k])
                      /\ HasKey(Get(op_result.val,
                                    get_subjects(site.list, Term)[k]),
                                ListedMap(k)[j].key)
                      /\ Get(Get(op_result.val,
                                 get_subjects(site.list, Term)[k]),
                             ListedMap(k)[j].key) = ListedMap(k)[j].val
        /\ \A a \in 1..Len(op_result.val) :
              /\ op_result.val[a].val # <<>>
              /\ \E k \in 1..Len(get_subjects(site.list, Term)) :
                    /\ get_subjects(site.list, Term)[k] = op_result.val[a].key
                    /\ \A b \in 1..Len(op_result.val[a].val) :
                          /\ HasKey(ListedMap(k), op_result.val[a].val[b].key)
                          /\ KeyContains(op_result.val[a].val[b].key, op_arg)

\* C15 witness: "cs-2114" finds CS-2114 with its two sections under CS,
\* and nothing under MATH, whose page was scraped too
C15_Witness ==
    /\ op = "find_course"
    /\ op_pc = "returned"
    /\ op_arg = <<"c", "s", "-", "2", "1", "1", "4">>
    /\ op_fetches = <<<<"%">>, SubjectCS, SubjectMATH>>
    /\ HasTable(PageOf(site, SubjectMATH))
    /\ Keys(op_result.val) = <<SubjectCS>>
    /\ Keys(op_result.val[1].val) = <<Course1>>
    /\ Len(op_result.val[1].val[1].val) = 2

\* the argument has the form letters, hyphen, exactly four digits
WellFormedCourse(course) ==
    \E n \in 1..Len(course) :
        /\ Len(course) = n + 5
        /\ \A j \in 1..n : IsLetter(course[j])
        /\ course[n + 1] = "-"
        /\ \A j \in (n + 2)..(n + 5) : IsDigit(course[j])

\* get_all_sections_for_course has run to its end
SectionsCallDone ==
    /\ op = "get_all_sections_for_course"
    /\ op_pc \in {"returned", "raised"}

\* C16 as stated: get_all_sections_for_course raises ValueError if and only
\* if its argument does not have the form letters, hyphen, four digits, and
\* it raises before any page is fetched
C16_ValueErrorIffMalformed ==
    SectionsCallDone =>
        /\ op_result.exc = "ValueError" <=> ~WellFormedCourse(op_arg)
        /\ op_result.exc = "ValueError" => op_fetches = <<>>

\* the key get_all_sections_for_course looks up for a well-formed argument
CourseKey(course) ==
    Upper(SplitOn(course, "-")[1]) \o <<"-">> \o SplitOn(course, "-")[2]

\* the CourseMap of the subject a well-formed argument names
CourseMapOf(course) ==
    scrape_subject(PageOf(site, Upper(SplitOn(course, "-")[1]))).map

\* C17 as stated: for a well-formed course code the call never raises; it
\* returns the section list of the course when the course is in the scraped
\* subject, and the empty list when it is not, also when the scrape of the
\* subject gave the empty map
C17_WellFormedNeverRaises ==
    (SectionsCallDone /\ WellFormedCourse(op_arg)) =>
        /\ op_pc = "returned"
        /\ op_result.val =
               IF HasKey(CourseMapOf(op_arg), CourseKey(op_arg))
               THEN Get(CourseMapOf(op_arg), CourseKey(op_arg))
               ELSE <<>>

\* C19 as stated: once a subject-list request has given a non-empty list,
\* no later call on the same instance fetches the all-subjects page again
C19_SubjectsFetchedOnce ==
    [][subjects_known => list_fetches' = list_fetches]_vars

\* C20 as stated: in every execution of a batch method (scrape_all_subjects,
\* find_course, find_section_by_crn), also one in which a fetch or parse
\* step fails or raises, the session of the fetcher is eventually closed
C20_SessionEventuallyClosed ==
    (op \in BatchMethods /\ op_pc = "running") ~> (session = "closed")

(***************************************************************************)
(* Properties of the row shapes                                            *)
(***************************************************************************)

\* the outcome of a 12- or 13-cell row taken as a new section of that layout
AsNewSection(m, curr, r) ==
    NewSectionRow(m, curr, Len(r),
                  parse_new_section_data(
                      r, IF Len(r) = 12 THEN "arranged" ELSE "regular"))

\* the step handled the row as a continuation row of the given layout
HandledAsContinuation(r, is_online) ==
    \E st \in {parse_additional_times_row(r, course_sections_map,
                                          curr_course, is_online)} :
        /\ course_sections_map' = st.map
        /\ (pc' = "raised") = (st.exc # "")
        /\ curr_course' = curr_course
        /\ created' = created

\* the step handled the row as a new section of its layout
HandledAsNewSection(r) ==
    \E st \in {AsNewSection(course_sections_map, curr_course, r)} :
        /\ course_sections_map' = st.map
        /\ (pc' = "raised") = (st.exc # "")
        /\ pc' = "loop" => curr_course' = st.curr
        /\ pc' = "loop" => (created' # created) = st.made

\* the step skipped the row
HandledAsUnrecognized ==
    /\ pc' = "loop"
    /\ course_sections_map' = course_sections_map
    /\ curr_course' = curr_course
    /\ created' = created

\* C21: every row is handled by its shape, in this order: 9 cells with the
\* marker as an online continuation, 10 cells with the marker as an
\* in-person continuation, 12 cells as an arranged section, 13 cells as a
\* scheduled section, anything else (9 or 10 cells without the marker and
\* no cells included) is skipped; a step raises only when the handling of
\* its shape raises, never the choice of the shape
C21_RowsHandledByShape ==
    [][(i' = i + 1) =>
          IF Len(row') = 9 /\ CarriesMarker(row')
          THEN HandledAsContinuation(row', TRUE)
          ELSE IF Len(row') = 10 /\ CarriesMarker(row')
          THEN HandledAsContinuation(row', FALSE)
          ELSE IF Len(row') \in {12, 13}
          THEN HandledAsNewSection(row')
          ELSE HandledAsUnrecognized]_vars

\* C21 witness: a 10-cell row without the marker was skipped after a
\* section had been created
C21_Witness ==
    /\ pc = "loop"
    /\ created # <<>>
    /\ Len(row) = 10
    /\ ~CarriesMarker(row)
    /\ SectionAt(course_sections_map, created[Len(created)]).meeting_times
           # NoneList

(***************************************************************************)
(* Properties of the fields of a section                                   *)
(***************************************************************************)

\* a non-empty text made of digits only
AllDigits(t) ==
    /\ t # None
    /\ t # <<>>
    /\ \A k \in 1..Len(t) : IsDigit(t[k])

\* C22 as stated: a 12- or 13-cell row whose CRN is absent or not a
\* non-negative integer creates no section: every section of the returned
\* map has a CRN made only of digits
C22_SectionsHaveDigitCrn ==
    pc = "returned" =>
        \A n \in 1..Len(created) :
            AllDigits(SectionAt(course_sections_map, created[n]).crn)

\* this step appended a section
SectionStep == i' = i + 1 /\ pc' = "loop" /\ created' # created

\* the section a step appended
SectionMade == SectionAt(course_sections_map', created'[Len(created')])

\* "<digits> TO <digits>"
IsCreditRange(toks) ==
    /\ Len(toks) = 3
    /\ AllDigits(toks[1])
    /\ toks[2] = <<"T", "O">>
    /\ AllDigits(toks[3])

\* C23 as stated: the credit hours of a produced section are an integer
\* (here: at least a text that denotes one), and a range gives its lower
\* bound
C23_CreditHoursInteger ==
    [][SectionStep =>
          /\ AllDigits(SectionMade.credit_hours)
          /\ IsCreditRange(SplitWhitespace(row'[6].text)) =>
                 SectionMade.credit_hours
                     = SplitWhitespace(row'[6].text)[1]]_vars

\* "Staff"
StaffText == <<"S", "t", "a", "f", "f">>

\* C24 as stated: the instructor of a produced section is "Staff" when the
\* instructor cell is absent, empty or "N/A", and the cell's text otherwise
C24_InstructorDefaultsToStaff ==
    [][SectionStep =>
          SectionMade.instructor
              = IF Strip(row'[8].text) \in {<<>>, NotAvailableText}
                THEN StaffText
                ELSE Strip(row'[8].text)]_vars

(***************************************************************************)
(* Properties of the rows that are skipped                                 *)
(***************************************************************************)

\* a row that neither creates a section nor is a continuation row: no
\* cells, a shape that is not recognized, or a 12- or 13-cell row without a
\* course key
NeitherSectionNorContinuation(r) ==
    \/ Len(r) = 0
    \/ Len(r) \notin {12, 13} /\ ~CarriesMarker(r)
    \/ Len(r) \in {12, 13} /\ safe_extract_text(r[2], "font") = None

\* C25 as stated: a row that neither creates a section nor is a
\* continuation row changes nothing: the loop goes on with the same course
\* map and the same current course, so that a continuation row after it
\* still extends the section created before it
C25_SkippedRowChangesNothing ==
    [][(i' = i + 1 /\ NeitherSectionNorContinuation(row')) =>
          /\ pc' = "loop"
          /\ course_sections_map' = course_sections_map
          /\ curr_course' = curr_course]_vars

(***************************************************************************)
(* Properties of the continuation rows                                     *)
(***************************************************************************)

\* the day tokens of a continuation row
DayTokens(r) == SplitWhitespace(r[6].text)

\* the meeting_times of the latest section before and after a step
LatestBefore ==
    ResetMeetings(SectionAt(course_sections_map,
                            created[Len(created)]).meeting_times)

LatestAfter ==
    SectionAt(course_sections_map', created[Len(created)]).meeting_times

\* C26: a 10-cell continuation row with several day letters adds exactly
\* one entry to the current section, the one of its last day letter; a
\* 9-cell continuation row adds all the entries it resolves to, or the
\* arranged sentinel, as they are
C26_InPersonKeepsLastOnlineKeepsAll ==
    [][(ContinuationStep /\ pc' = "loop" /\ created # <<>>) =>
          /\ (Len(row') = 10 /\ Len(DayTokens(row')) >= 2) =>
                /\ Len(LatestAfter) = Len(LatestBefore) + 1
                /\ SubSeq(LatestAfter, 1, Len(LatestBefore)) = LatestBefore
                /\ LatestAfter[Len(LatestAfter)].day
                       = DAY_MAPPING[DayTokens(row')[Len(DayTokens(row'))][1]]
          /\ Len(row') = 9 =>
                LatestAfter = LatestBefore \o
                    determine_meeting_times(
                        safe_extract_text(row'[6], ""),
                        safe_extract_text(row'[7], ""), None).val]_vars

\* C26 witness: a section with one Monday meeting, then a 10-cell row for
\* "M W" at 9:30AM: one entry was added, Wednesday at 09:30
C26_Witness ==
    /\ pc = "loop"
    /\ created # <<>>
    /\ Len(row) = 10
    /\ CarriesMarker(row)
    /\ DayTokens(row) = <<<<"M">>, <<"W">>>>
    /\ LET mt == SectionAt(course_sections_map,
                           created[Len(created)]).meeting_times
       IN  /\ Len(mt) = 2
           /\ mt[1] # ARR
           /\ mt[2] # ARR
           /\ mt[2].day = 3
           /\ mt[2].begin_time = <<"0", "9", ":", "3", "0">>

(***************************************************************************)
(* Properties of the entries of determine_meeting_times                    *)
(***************************************************************************)

\* the day letters in the order of their numbers
DayLetters == <<"M", "T", "W", "R", "F", "S", "U">>

\* the number of a day letter: M = 1, ..., U = 7
DayNumber(tok) == CHOOSE n \in 1..7 : DayLetters[n] = tok[1]

\* the end time of a call: the begin time when it is omitted
EndOrBegin(begin_time, end_time) ==
    IF end_time = None THEN begin_time ELSE end_time

\* C27: for days that are not arranged, the list determine_meeting_times
\* returns has one entry per day letter, in the order of the letters, with
\* M = 1, T = 2, W = 3, R = 4, F = 5, S = 6, U = 7, and every entry has the
\* converted begin time and the converted end time of the call, the end
\* time being the begin time when it is omitted
C27_OneEntryPerDayLetter ==
    (/\ call = "determine_meeting_times"
     /\ args[1] \notin {None, <<>>, ArrangedDaysText}
     /\ result.exc = "") =>
        \E toks \in {SplitWhitespace(args[1])} :
            /\ Len(result.val) = Len(toks)
            /\ \A k \in 1..Len(toks) :
                  /\ result.val[k].day = DayNumber(toks[k])
                  /\ result.val[k].begin_time = parse_time(args[2]).val
                  /\ result.val[k].end_time
                         = parse_time(EndOrBegin(args[2], args[3])).val

\* C27 witness: "S U" at 2:50PM with the end time omitted gave Saturday
\* and Sunday, both from 14:50 to 14:50
C27_Witness ==
    /\ call = "determine_meeting_times"
    /\ args = <<<<"S", " ", "U">>, TimeStr(2, 50, <<"P", "M">>, FALSE), None>>
    /\ result.exc = ""
    /\ Len(result.val) = 2
    /\ result.val[1]
           = [day |-> 6, begin_time |-> <<"1", "4", ":", "5", "0">>,
              end_time |-> <<"1", "4", ":", "5", "0">>]
    /\ result.val[2]
           = [day |-> 7, begin_time |-> <<"1", "4", ":", "5", "0">>,
              end_time |-> <<"1", "4", ":", "5", "0">>]

(***************************************************************************)
(* Properties of parse_courses                                             *)
(***************************************************************************)

\* this step consumed a row for which _parse_additional_meeting_row gave a
\* list
AdditionalRowStep ==
    /\ row_n' = row_n + 1
    /\ parsed_row'.num_cells # 0
    /\ parsed_row'.additional_meeting_list # NoneList

\* C28: a continuation row that comes in a subject's page before any
\* section row of that page is dropped: the course map, which holds the
\* sections of the subjects processed before, is left as it was
C28_ContinuationStaysInSubject ==
    [][(AdditionalRowStep /\ ~page_has_section) =>
          all_courses_map' = all_courses_map]_vars

\* C28 witness: the page of the second subject starts with a continuation
\* row that has a meeting time, and the section made in the first
\* subject's page still has its one meeting time
C28_Witness ==
    /\ parse_pc = "rows"
    /\ subject_n = 2
    /\ row_n = 1
    /\ ~page_has_section
    /\ parsed_row.additional_meeting_list = <<MeetingTime("FRIDAY")>>
    /\ Len(all_courses_map) = 1
    /\ all_courses_map[1].val.courseSections[1].meetingTimes
           = <<MeetingTime("TUESDAY")>>

(***************************************************************************)
(* Properties of the course map                                            *)
(***************************************************************************)

\* the sections under a key, the empty list for a key that is missing
SectionsUnder(m, k) == IF HasKey(m, k) THEN Get(m, k) ELSE <<>>

\* every key has a section, every section is under the key of its course,
\* and the sections are those created, each at one place
WellGrouped(m, made) ==
    /\ \A j \in 1..Len(m) :
          /\ Len(m[j].val) >= 1
          /\ \A n \in 1..Len(m[j].val) :
                /\ m[j].val[n].course = m[j].key
                /\ \E c \in 1..Len(made) : made[c] = <<m[j].key, n>>
    /\ \A c, d \in 1..Len(made) : made[c] = made[d] => c = d
    /\ \A c \in 1..Len(made) :
          /\ HasKey(m, made[c][1])
          /\ made[c][2] \in 1..Len(Get(m, made[c][1]))

\* C29: in the course map every key has a non-empty section list, every
\* section is stored under the key that is its course field, every created
\* section is in exactly one list, and a section row puts its section
\* after the sections its course already had, so that the sections of a
\* key are in the order of their rows
C29_SectionsGroupedInRowOrder ==
    [][/\ WellGrouped(course_sections_map', created')
       /\ SectionStep =>
             \E k \in {safe_extract_text(row'[2], "font")} :
                /\ Len(Get(course_sections_map', k))
                       = Len(SectionsUnder(course_sections_map, k)) + 1
                /\ SubSeq(Get(course_sections_map', k), 1,
                          Len(SectionsUnder(course_sections_map, k)))
                       = SectionsUnder(course_sections_map, k)
                /\ SectionMade = Get(course_sections_map', k)[
                                     Len(Get(course_sections_map', k))]
                /\ SectionMade.crn = safe_extract_text(row'[1], "b")
                /\ \A j \in 1..Len(course_sections_map) :
                      course_sections_map[j].key # k =>
                          course_sections_map'[j] = course_sections_map[j]]_vars

\* C29 witness: a returned map with two courses, the first with two
\* different sections, made by the first and the third row
C29_Witness ==
    /\ pc = "returned"
    /\ Len(created) = 3
    /\ Len(course_sections_map) = 2
    /\ created[1] = <<course_sections_map[1].key, 1>>
    /\ created[2] = <<course_sections_map[2].key, 1>>
    /\ created[3] = <<course_sections_map[1].key, 2>>
    /\ course_sections_map[1].val[1].crn # course_sections_map[1].val[2].crn

(***************************************************************************)
(* Properties of find_section_by_crn                                       *)
(***************************************************************************)

\* the subjects in the order get_subjects returns them
SubjectList == get_subjects(site.list, Term)

\* what scrape_subject gives for a subject of the site: [exc, map]
ScrapeOf(subject) == scrape_subject(PageOf(site, subject))

\* a course map has a section with the CRN
HasCrn(course_map, crn) ==
    \E j \in 1..Len(course_map) :
        \E n \in 1..Len(course_map[j].val) : course_map[j].val[n].crn = crn

\* the scan passes a subject: its scrape returns and has no such section
Passed(r, crn) == r.exc = "" /\ ~HasCrn(r.map, crn)

\* the fetches of a scan that stops at the k-th subject
FetchesUpTo(k) == <<<<"%">>>> \o SubSeq(SubjectList, 1, k)

\* the subjects before the k-th are passed, and fetched once each in order
ScanReached(k, crn) ==
    /\ k \in 1..Len(SubjectList)
    /\ op_fetches = FetchesUpTo(k)
    /\ \A j \in 1..(k - 1) : Passed(ScrapeOf(SubjectList[j]), crn)

\* a row that makes a section with the CRN
RowWithCrn(r, crn) ==
    /\ Len(r) \in {12, 13}
    /\ safe_extract_text(r[2], "font") # None
    /\ safe_extract_text(r[1], "b") = crn

\* the course of the first row of a page, in page order, that makes a
\* section with the CRN
FirstRowCourse(rows, crn) ==
    safe_extract_text(
        rows[CHOOSE n \in 1..Len(rows) :
                 /\ RowWithCrn(rows[n], crn)
                 /\ \A e \in 1..(n - 1) : ~RowWithCrn(rows[e], crn)][2],
        "font")

\* C30 as stated: the section find_section_by_crn returns is the first
\* match with the subjects in the order of get_subjects and, within a
\* subject, the sections in page order; the subjects up to the match are
\* fetched once each, in that order, and none after it
C30_FirstMatchInPageOrder ==
    (/\ op = "find_section_by_crn"
     /\ op_pc = "returned"
     /\ op_result.val # NoSection) =>
        \E k \in 1..Len(SubjectList) :
            /\ op_result.val.subject = SubjectList[k]
            /\ ScanReached(k, op_arg)
            /\ op_result.val.section.crn = op_arg
            /\ op_result.val.course
                   = FirstRowCourse(DataRows(PageOf(site, SubjectList[k])),
                                    op_arg)

\* the first match of a course map: the first key, in the order of the
\* keys, that has a section with the CRN, and the first such section of
\* its list
FirstInMapOrder(course_map, crn, found) ==
    \E j \in 1..Len(course_map) :
        \E n \in 1..Len(course_map[j].val) :
            /\ found.course = course_map[j].key
            /\ found.section = course_map[j].val[n]
            /\ found.section.crn = crn
            /\ \A e \in 1..(n - 1) : course_map[j].val[e].crn # crn
            /\ \A d \in 1..(j - 1) :
                  \A e \in 1..Len(course_map[d].val) :
                      course_map[d].val[e].crn # crn

\* C30 amended: the match is the first in the order of the two loops: the
\* subjects in the order of get_subjects, the courses of a subject in the
\* order of the keys of its map (first appearance in the page) and the
\* sections of a course in page order; the subjects up to the match are
\* fetched once each, in that order, and none after it; without a match
\* every subject is fetched once; when scrape_subject raises for a subject
\* reached by the scan, the exception leaves the call and no later subject
\* is fetched
C30_FirstMatchInMapOrder ==
    (op = "find_section_by_crn" /\ op_pc \in {"returned", "raised"}) =>
        IF op_pc = "raised"
        THEN \E k \in 1..Len(SubjectList) :
                /\ ScanReached(k, op_arg)
                /\ ScrapeOf(SubjectList[k]).exc = op_result.exc
        ELSE IF op_result.val = NoSection
        THEN /\ op_fetches = FetchesUpTo(Len(SubjectList))
             /\ \A j \in 1..Len(SubjectList) :
                   Passed(ScrapeOf(SubjectList[j]), op_arg)
        ELSE \E k \in 1..Len(SubjectList) :
                /\ op_result.val.subject = SubjectList[k]
                /\ ScanReached(k, op_arg)
                /\ ScrapeOf(SubjectList[k]).exc = ""
                /\ FirstInMapOrder(ScrapeOf(SubjectList[k]).map, op_arg,
                                   op_result.val)

\* C30 witness: the second subject of the list has the match, under the
\* first course of its page although an earlier row of the page has the
\* same CRN under another course
C30_Witness ==
    /\ op = "find_section_by_crn"
    /\ op_pc = "returned"
    /\ op_arg = Crn3
    /\ op_result.val # NoSection
    /\ op_result.val.subject = SubjectCS
    /\ op_result.val.course = Course1
    /\ op_fetches = <<<<"%">>, SubjectMATH, SubjectCS>>
    /\ FirstRowCourse(DataRows(PageOf(site, SubjectCS)), Crn3) = Course2
====
